---- MODULE Spec2Model ----
(***************************************************************************)
(* Lattice-Boltzmann airfoil visualizer (src/fluidSimulation.js).          *)
(*                                                                         *)
(* The variable `simulation` is the FluidSimulation object (`this` in the  *)
(* source); its fields keep the source's names.  A JavaScript number is a  *)
(* pair <<n, d>>: d > 0 is the rational n/d in lowest terms, and d = 0 is  *)
(* a non-finite double: <<0,0>> NaN, <<1,0>> Infinity, <<-1,0>> -Infinity. *)
(* Arithmetic is exact on the finite values (the rounding of doubles and   *)
(* of Float32Array stores is not modelled) and follows IEEE-754 on the     *)
(* non-finite ones.                                                        *)
(***************************************************************************)
EXTENDS Integers, Sequences, FiniteSets, TLC

VARIABLES simulation, pc, step, phases, pre, lastOp, events, raf

vars == <<simulation, pc, step, phases, pre, lastOp, events, raf>>

(***************************************************************************)
(* Bounds of the model.                                                    *)
(***************************************************************************)
\* side of the lattices the stream()/collide() functions are applied to
LatDim == 5
\* most solid cells placed on such a lattice
MaxSolid == 2

(***************************************************************************)
(* JavaScript numbers.                                                     *)
(***************************************************************************)
Abs(k) == IF k < 0 THEN 0 - k ELSE k

Sign(k) == IF k < 0 THEN 0 - 1 ELSE IF k > 0 THEN 1 ELSE 0

RECURSIVE GCD(_, _)
GCD(a, b) == IF b = 0 THEN a ELSE GCD(b, a % b)

\* the number n/d, d > 0, in lowest terms
R(k, d) ==
    LET g == GCD(Abs(k), d)
    IN  <<k \div g, d \div g>>

NaN == <<0, 0>>

Zero == <<0, 1>>

One == <<1, 1>>

IsNaN(a) == a[2] = 0 /\ a[1] = 0

IsFinite(a) == a[2] > 0

IsInf(a) == a[2] = 0 /\ a[1] # 0

Neg(a) == <<0 - a[1], a[2]>>

\* a + b
Add(a, b) ==
    IF IsNaN(a) \/ IsNaN(b) THEN NaN
    ELSE IF IsInf(a) THEN (IF IsInf(b) /\ b[1] # a[1] THEN NaN ELSE a)
    ELSE IF IsInf(b) THEN b
    ELSE LET g == GCD(a[2], b[2])
         IN  R(a[1] * (b[2] \div g) + b[1] * (a[2] \div g), (a[2] \div g) * b[2])

\* a - b
Sub(a, b) == Add(a, Neg(b))

\* a * b (the factors are in lowest terms, and so is the product after the cross
\* cancellation)
Mul(a, b) ==
    IF IsNaN(a) \/ IsNaN(b) THEN NaN
    ELSE IF IsInf(a) \/ IsInf(b)
         THEN (IF a[1] = 0 \/ b[1] = 0 THEN NaN ELSE <<Sign(a[1]) * Sign(b[1]), 0>>)
    ELSE LET g1 == GCD(Abs(a[1]), b[2])
             g2 == GCD(Abs(b[1]), a[2])
         IN  <<(a[1] \div g1) * (b[1] \div g2), (a[2] \div g2) * (b[2] \div g1)>>

\* a / b (a zero divisor is +0)
Div(a, b) ==
    IF IsNaN(a) \/ IsNaN(b) THEN NaN
    ELSE IF IsInf(b) THEN (IF IsInf(a) THEN NaN ELSE Zero)
    ELSE IF b[1] = 0 THEN (IF a[1] = 0 THEN NaN ELSE <<Sign(a[1]), 0>>)
    ELSE IF IsInf(a) THEN <<a[1] * Sign(b[1]), 0>>
    ELSE Mul(a, <<Sign(b[1]) * b[2], Abs(b[1])>>)

\* a < b (false when either is NaN)
Less(a, b) ==
    /\ ~IsNaN(a)
    /\ ~IsNaN(b)
    /\ IF IsInf(a) THEN a[1] < 0 /\ b # a
       ELSE IF IsInf(b) THEN b[1] > 0
       ELSE a[1] * b[2] < b[1] * a[2]

\* a === b on numbers (NaN equals nothing)
NumEq(a, b) == ~IsNaN(a) /\ ~IsNaN(b) /\ a = b

\* 0 + s[1] + ... + s[k], left to right
RECURSIVE SumTo(_, _)
SumTo(s, k) == IF k = 0 THEN Zero ELSE Add(SumTo(s, k - 1), s[k])

\* the sum of a sequence of numbers, left to right
SumSeq(s) == SumTo(s, Len(s))

\* the function f itself, with all its values computed once (TLC otherwise evaluates
\* the defining expression of a function again at every application)
Eager(f) == f @@ <<>>

(***************************************************************************)
(* The D2Q9 lattice.                                                       *)
(***************************************************************************)
\* the names of the nine population arrays
PopNames == <<"n0", "nE", "nN", "nW", "nS", "nNE", "nNW", "nSW", "nSE">>

\* the eight moving directions
Moving == {"nE", "nN", "nW", "nS", "nNE", "nNW", "nSW", "nSE"}

\* the lattice velocity of a direction: the sign it carries in collide()'s
\* momentum sums (E = +x, W = -x, N = +y, S = -y)
Velocity(d) ==
    CASE d = "n0"  -> <<0, 0>>
      [] d = "nE"  -> <<1, 0>>
      [] d = "nW"  -> <<0 - 1, 0>>
      [] d = "nN"  -> <<0, 1>>
      [] d = "nS"  -> <<0, 0 - 1>>
      [] d = "nNE" -> <<1, 1>>
      [] d = "nNW" -> <<0 - 1, 1>>
      [] d = "nSE" -> <<1, 0 - 1>>
      [] d = "nSW" -> <<0 - 1, 0 - 1>>

\* the direction of the reversed velocity
Opposite(d) ==
    CASE d = "n0"  -> "n0"
      [] d = "nE"  -> "nW"
      [] d = "nW"  -> "nE"
      [] d = "nN"  -> "nS"
      [] d = "nS"  -> "nN"
      [] d = "nNE" -> "nSW"
      [] d = "nSW" -> "nNE"
      [] d = "nNW" -> "nSE"
      [] d = "nSE" -> "nNW"

\* this.four9ths, this.one9th, this.one36th
four9ths == R(4, 9)

one9th == R(1, 9)

one36th == R(1, 36)

\* a Float32Array / Uint8Array of `size` zeros
ZeroArray(size) == Eager([i \in 0 .. size - 1 |-> Zero])

ByteArray(size) == Eager([i \in 0 .. size - 1 |-> 0])

\* initArrays(): every per-cell array reallocated, zero-filled
initArrays(t) ==
    LET size == t.xdim * t.ydim
    IN  [t EXCEPT !.n0 = ZeroArray(size), !.nN = ZeroArray(size), !.nS = ZeroArray(size),
                  !.nE = ZeroArray(size), !.nW = ZeroArray(size), !.nNE = ZeroArray(size),
                  !.nSE = ZeroArray(size), !.nNW = ZeroArray(size), !.nSW = ZeroArray(size),
                  !.rho = ZeroArray(size), !.ux = ZeroArray(size), !.uy = ZeroArray(size),
                  !.curl = ZeroArray(size), !.pressure = ZeroArray(size),
                  !.speed = ZeroArray(size), !.barriers = ByteArray(size)]

\* computeDensity(i)
computeDensity(t, i) ==
    SumSeq(<<t.n0[i], t.nN[i], t.nS[i], t.nE[i], t.nW[i],
             t.nNW[i], t.nNE[i], t.nSW[i], t.nSE[i]>>)

\* the nine values setEquilibrium() stores for (ux, uy, rho)
Equilibrium(ux, uy, rho) ==
    LET ux3   == Mul(R(3, 1), ux)
        uy3   == Mul(R(3, 1), uy)
        ux2   == Mul(ux, ux)
        uy2   == Mul(uy, uy)
        uxuy2 == Mul(Mul(R(2, 1), ux), uy)
        u2    == Add(ux2, uy2)
        u215  == Mul(R(3, 2), u2)
        c45   == R(9, 2)
    IN  [n0  |-> Mul(Mul(four9ths, rho), Sub(One, u215)),
         nE  |-> Mul(Mul(one9th, rho), Sub(Add(Add(One, ux3), Mul(c45, ux2)), u215)),
         nW  |-> Mul(Mul(one9th, rho), Sub(Add(Sub(One, ux3), Mul(c45, ux2)), u215)),
         nN  |-> Mul(Mul(one9th, rho), Sub(Add(Add(One, uy3), Mul(c45, uy2)), u215)),
         nS  |-> Mul(Mul(one9th, rho), Sub(Add(Sub(One, uy3), Mul(c45, uy2)), u215)),
         nNE |-> Mul(Mul(one36th, rho),
                     Sub(Add(Add(Add(One, ux3), uy3), Mul(c45, Add(u2, uxuy2))), u215)),
         nSE |-> Mul(Mul(one36th, rho),
                     Sub(Add(Sub(Add(One, ux3), uy3), Mul(c45, Sub(u2, uxuy2))), u215)),
         nNW |-> Mul(Mul(one36th, rho),
                     Sub(Add(Add(Sub(One, ux3), uy3), Mul(c45, Sub(u2, uxuy2))), u215)),
         nSW |-> Mul(Mul(one36th, rho),
                     Sub(Add(Sub(Sub(One, ux3), uy3), Mul(c45, Add(u2, uxuy2))), u215))]

\* the assignments of setEquilibrium(): the nine values e and rho, ux, uy stored at cell i
StoreEquilibrium(t, i, e, ux, uy, rho) ==
    [t EXCEPT !.n0[i] = e.n0, !.nE[i] = e.nE, !.nW[i] = e.nW, !.nN[i] = e.nN,
              !.nS[i] = e.nS, !.nNE[i] = e.nNE, !.nSE[i] = e.nSE,
              !.nNW[i] = e.nNW, !.nSW[i] = e.nSW,
              !.rho[i] = rho, !.ux[i] = ux, !.uy[i] = uy]

\* setEquilibrium(x, y, ux, uy, rho)
setEquilibrium(t, x, y, ux, uy, rho) ==
    StoreEquilibrium(t, x + y * t.xdim, Equilibrium(ux, uy, rho), ux, uy, rho)

\* a variant of _zeroOutBarrierCells() that clears the populations of the barrier cells
\* and leaves their rho, ux and uy
zeroOutBarrierPopulations(t) ==
    LET Z(a) == Eager([i \in DOMAIN a |-> IF t.barriers[i] = 1 THEN Zero ELSE a[i]])
    IN  [t EXCEPT !.n0 = Z(@), !.nN = Z(@), !.nS = Z(@), !.nE = Z(@), !.nW = Z(@),
                  !.nNE = Z(@), !.nSE = Z(@), !.nNW = Z(@), !.nSW = Z(@)]

\* _zeroOutBarrierCells()
zeroOutBarrierCells(t) ==
    LET Z(a) == Eager([i \in DOMAIN a |-> IF t.barriers[i] = 1 THEN Zero ELSE a[i]])
    IN  [t EXCEPT !.n0 = Z(@), !.nN = Z(@), !.nS = Z(@), !.nE = Z(@), !.nW = Z(@),
                  !.nNE = Z(@), !.nSE = Z(@), !.nNW = Z(@), !.nSW = Z(@),
                  !.rho = Z(@), !.ux = Z(@), !.uy = Z(@)]

(***************************************************************************)
(* stream(): the in-place sweeps, then the bounce-back.                    *)
(***************************************************************************)
\* the assignments a[dst] = a[src] of one sweep, done in the order of `moves`
RECURSIVE Sweep(_, _, _)
Sweep(a, moves, k) ==
    IF k > Len(moves) THEN a
    ELSE Sweep([a EXCEPT ![moves[k][1]] = a[moves[k][2]]], moves, k + 1)

\* a variant of the north sweep that visits the rows in increasing y
NorthOrderAscending(xdim, ydim) ==
    [k \in 1 .. (xdim - 2) * (ydim - 2) |->
        <<1 + ((k - 1) % (xdim - 2)), 1 + ((k - 1) \div (xdim - 2))>>]

\* for (y = ydim-2; y > 0; y--) for (x = 1; x < xdim-1; x++): the cells in order
NorthOrder(xdim, ydim) ==
    [k \in 1 .. (xdim - 2) * (ydim - 2) |->
        <<1 + ((k - 1) % (xdim - 2)), (ydim - 2) - ((k - 1) \div (xdim - 2))>>]

\* for (y = 0; y < ydim-1; y++) for (x = 1; x < xdim-1; x++)
SouthOrder(xdim, ydim) ==
    [k \in 1 .. (xdim - 2) * (ydim - 1) |->
        <<1 + ((k - 1) % (xdim - 2)), (k - 1) \div (xdim - 2)>>]

\* for (y = 1; y < ydim-1; y++) for (x = 0; x < xdim-1; x++)
EastOrder(xdim, ydim) ==
    [k \in 1 .. (xdim - 1) * (ydim - 2) |->
        <<(k - 1) % (xdim - 1), 1 + ((k - 1) \div (xdim - 1))>>]

\* for (y = 1; y < ydim-1; y++) for (x = xdim-1; x > 0; x--)
WestOrder(xdim, ydim) ==
    [k \in 1 .. (xdim - 1) * (ydim - 2) |->
        <<(xdim - 1) - ((k - 1) % (xdim - 1)), 1 + ((k - 1) \div (xdim - 1))>>]

\* the moves <<i, i + dx + dy*xdim>> of a sweep reading the cell at offset (dx, dy)
Moves(order, xdim, dx, dy) ==
    [k \in 1 .. Len(order) |->
        <<order[k][1] + order[k][2] * xdim,
          (order[k][1] + dx) + (order[k][2] + dy) * xdim>>]

\* the propagation part of stream()
streamSweeps(t) ==
    LET no == NorthOrder(t.xdim, t.ydim)
        so == SouthOrder(t.xdim, t.ydim)
        eo == EastOrder(t.xdim, t.ydim)
        wo == WestOrder(t.xdim, t.ydim)
    IN  [t EXCEPT !.nN  = Sweep(@, Moves(no, t.xdim, 0, 0 - 1), 1),
                  !.nNW = Sweep(@, Moves(no, t.xdim, 1, 0 - 1), 1),
                  !.nNE = Sweep(@, Moves(no, t.xdim, 0 - 1, 0 - 1), 1),
                  !.nS  = Sweep(@, Moves(so, t.xdim, 0, 1), 1),
                  !.nSW = Sweep(@, Moves(so, t.xdim, 1, 1), 1),
                  !.nSE = Sweep(@, Moves(so, t.xdim, 0 - 1, 1), 1),
                  !.nE  = Sweep(@, Moves(eo, t.xdim, 1, 0), 1),
                  !.nW  = Sweep(@, Moves(wo, t.xdim, 0 - 1, 0), 1)]

\* for (y = 1; y < ydim-1; y++) for (x = 1; x < xdim-1; x++)
InteriorOrder(xdim, ydim) ==
    [k \in 1 .. (xdim - 2) * (ydim - 2) |->
        <<1 + ((k - 1) % (xdim - 2)), 1 + ((k - 1) \div (xdim - 2))>>]

\* the four swaps stream() does at the barrier cell (x, y)
bounceCell(t, x, y) ==
    LET i  == x + y * t.xdim
        xE == x + 1
        xW == x - 1
        yN == y - 1
        iE  == xE + y * t.xdim
        iN  == x + yN * t.xdim
        iNE == xE + yN * t.xdim
        iNW == xW + yN * t.xdim
    IN  [t EXCEPT !.nE[iE]   = t.nW[i],  !.nW[i]  = t.nE[iE],
                  !.nN[iN]   = t.nS[i],  !.nS[i]  = t.nN[iN],
                  !.nNE[iNE] = t.nSW[i], !.nSW[i] = t.nNE[iNE],
                  !.nNW[iNW] = t.nSE[i], !.nSE[i] = t.nNW[iNW]]

\* the bounce-back loop of stream()
RECURSIVE bounceBack(_, _, _)
bounceBack(t, order, k) ==
    IF k > Len(order) THEN t
    ELSE bounceBack(IF t.barriers[order[k][1] + order[k][2] * t.xdim] # 0
                    THEN bounceCell(t, order[k][1], order[k][2])
                    ELSE t,
                    order, k + 1)

\* stream()
stream(t) == bounceBack(streamSweeps(t), InteriorOrder(t.xdim, t.ydim), 1)

\* the interior cells of an xdim x ydim lattice, as indices
Interior(xdim, ydim) ==
    {x + y * xdim : x \in 1 .. xdim - 2, y \in 1 .. ydim - 2}

(***************************************************************************)
(* collide(): BGK and MRT.                                                 *)
(***************************************************************************)
\* a variant of CellF that lists the populations in the order computeDensity() adds them
CellFDensityOrder(t, i) ==
    <<t.n0[i], t.nN[i], t.nS[i], t.nE[i], t.nW[i], t.nNW[i], t.nNE[i], t.nSW[i], t.nSE[i]>>

\* the nine populations of cell i in the order collideMRT() uses
CellF(t, i) ==
    <<t.n0[i], t.nE[i], t.nN[i], t.nW[i], t.nS[i], t.nNE[i], t.nNW[i], t.nSW[i], t.nSE[i]>>

\* the body of collideBGK()'s loop: from the populations f of a cell (in CellF order),
\* the rho, ux, uy and pressure it stores and the relaxed populations
collideBGKCell(f, omega) ==
    LET n0 == f[1]  nE == f[2]  nN == f[3]  nW == f[4]  nS == f[5]
        nNE == f[6] nNW == f[7] nSW == f[8] nSE == f[9]
        thisrho == SumSeq(<<n0, nN, nS, nE, nW, nNW, nNE, nSW, nSE>>)
        thisux  == Sub(Add(Add(nE, nNE), nSE), Add(Add(nW, nNW), nSW))
        thisuy  == Sub(Add(Add(nN, nNE), nNW), Add(Add(nS, nSE), nSW))
        ux == Div(thisux, thisrho)
        uy == Div(thisuy, thisrho)
        one9thrho  == Mul(one9th, thisrho)
        one36thrho == Mul(one36th, thisrho)
        ux3   == Mul(R(3, 1), ux)
        uy3   == Mul(R(3, 1), uy)
        ux2   == Mul(ux, ux)
        uy2   == Mul(uy, uy)
        uxuy2 == Mul(Mul(R(2, 1), ux), uy)
        u2    == Add(ux2, uy2)
        u215  == Mul(R(3, 2), u2)
        c45   == R(9, 2)
        Relax(old, eq) == Add(old, Mul(omega, Sub(eq, old)))
    IN  [rho |-> thisrho, ux |-> ux, uy |-> uy, pressure |-> Div(thisrho, R(3, 1)),
         f |-> << Relax(n0, Mul(Mul(four9ths, thisrho), Sub(One, u215))),
                  Relax(nE, Mul(one9thrho, Sub(Add(Add(One, ux3), Mul(c45, ux2)), u215))),
                  Relax(nN, Mul(one9thrho, Sub(Add(Add(One, uy3), Mul(c45, uy2)), u215))),
                  Relax(nW, Mul(one9thrho, Sub(Add(Sub(One, ux3), Mul(c45, ux2)), u215))),
                  Relax(nS, Mul(one9thrho, Sub(Add(Sub(One, uy3), Mul(c45, uy2)), u215))),
                  Relax(nNE, Mul(one36thrho,
                      Sub(Add(Add(Add(One, ux3), uy3), Mul(c45, Add(u2, uxuy2))), u215))),
                  Relax(nNW, Mul(one36thrho,
                      Sub(Add(Add(Sub(One, ux3), uy3), Mul(c45, Sub(u2, uxuy2))), u215))),
                  Relax(nSW, Mul(one36thrho,
                      Sub(Add(Sub(Sub(One, ux3), uy3), Mul(c45, Add(u2, uxuy2))), u215))),
                  Relax(nSE, Mul(one36thrho,
                      Sub(Add(Sub(Add(One, ux3), uy3), Mul(c45, Sub(u2, uxuy2))), u215))) >>]

\* a variant of this.M whose columns are in the order n0, nN, nS, nE, nW, nNW, nNE, nSW,
\* nSE in which computeDensity() lists the populations
MDensityOrder ==
    << <<1, 1, 1, 1, 1, 1, 1, 1, 1>>,
       <<0 - 4, 0 - 1, 0 - 1, 0 - 1, 0 - 1, 2, 2, 2, 2>>,
       <<4, 0 - 2, 0 - 2, 0 - 2, 0 - 2, 1, 1, 1, 1>>,
       <<0, 0, 0, 1, 0 - 1, 0 - 1, 1, 0 - 1, 1>>,
       <<0, 0, 0, 0 - 2, 2, 0 - 1, 1, 0 - 1, 1>>,
       <<0, 1, 0 - 1, 0, 0, 1, 1, 0 - 1, 0 - 1>>,
       <<0, 0 - 2, 2, 0, 0, 1, 1, 0 - 1, 0 - 1>>,
       <<0, 0 - 1, 0 - 1, 1, 1, 0, 0, 0, 0>>,
       <<0, 0, 0, 0, 0, 0 - 1, 1, 1, 0 - 1>> >>

\* this.M
M ==
    << <<1, 1, 1, 1, 1, 1, 1, 1, 1>>,
       <<0 - 4, 0 - 1, 0 - 1, 0 - 1, 0 - 1, 2, 2, 2, 2>>,
       <<4, 0 - 2, 0 - 2, 0 - 2, 0 - 2, 1, 1, 1, 1>>,
       <<0, 1, 0, 0 - 1, 0, 1, 0 - 1, 0 - 1, 1>>,
       <<0, 0 - 2, 0, 2, 0, 1, 0 - 1, 0 - 1, 1>>,
       <<0, 0, 1, 0, 0 - 1, 1, 1, 0 - 1, 0 - 1>>,
       <<0, 0, 0 - 2, 0, 2, 1, 1, 0 - 1, 0 - 1>>,
       <<0, 1, 0 - 1, 1, 0 - 1, 0, 0, 0, 0>>,
       <<0, 0, 0, 0, 0, 1, 0 - 1, 1, 0 - 1>> >>

\* this.Minv
Minv ==
    << <<R(1, 9), R(0 - 1, 9), R(1, 9), Zero, Zero, Zero, Zero, Zero, Zero>>,
       <<R(1, 9), R(0 - 1, 36), R(0 - 1, 18), R(1, 6), R(0 - 1, 6), Zero, Zero, R(1, 4), Zero>>,
       <<R(1, 9), R(0 - 1, 36), R(0 - 1, 18), Zero, Zero, R(1, 6), R(0 - 1, 6), R(0 - 1, 4), Zero>>,
       <<R(1, 9), R(0 - 1, 36), R(0 - 1, 18), R(0 - 1, 6), R(1, 6), Zero, Zero, R(1, 4), Zero>>,
       <<R(1, 9), R(0 - 1, 36), R(0 - 1, 18), Zero, Zero, R(0 - 1, 6), R(1, 6), R(0 - 1, 4), Zero>>,
       <<R(1, 9), R(1, 18), R(1, 36), R(1, 6), R(1, 12), R(1, 6), R(1, 12), Zero, R(1, 4)>>,
       <<R(1, 9), R(1, 18), R(1, 36), R(0 - 1, 6), R(0 - 1, 12), R(1, 6), R(1, 12), Zero, R(0 - 1, 4)>>,
       <<R(1, 9), R(1, 18), R(1, 36), R(0 - 1, 6), R(0 - 1, 12), R(0 - 1, 6), R(0 - 1, 12), Zero, R(1, 4)>>,
       <<R(1, 9), R(1, 18), R(1, 36), R(1, 6), R(1, 12), R(0 - 1, 6), R(0 - 1, 12), Zero, R(0 - 1, 4)>> >>

\* the body of collideMRT()'s loop: from the populations f of a cell and the relaxation
\* rates S, the rho, ux, uy and pressure it stores and the populations f_post
collideMRTCell(f, S) ==
    LET thisrho == SumSeq(f)
        thisux  == Div(Sub(Sub(Sub(Add(Add(f[2], f[6]), f[9]), f[4]), f[7]), f[8]), thisrho)
        thisuy  == Div(Sub(Sub(Sub(Add(Add(f[3], f[6]), f[7]), f[5]), f[8]), f[9]), thisrho)
        m == Eager([a \in 1 .. 9 |-> SumSeq(Eager([b \in 1 .. 9 |-> Mul(R(M[a][b], 1), f[b])]))])
        ux2 == Mul(thisux, thisux)
        uy2 == Mul(thisuy, thisuy)
        u2  == Add(ux2, uy2)
        meq == << thisrho,
                  Add(Mul(R(0 - 2, 1), thisrho), Mul(Mul(R(3, 1), thisrho), u2)),
                  Sub(thisrho, Mul(Mul(R(3, 1), thisrho), u2)),
                  Mul(thisrho, thisux),
                  Mul(Mul(R(0 - 2, 3), thisrho), thisux),
                  Mul(thisrho, thisuy),
                  Mul(Mul(R(0 - 2, 3), thisrho), thisuy),
                  Mul(thisrho, Sub(ux2, uy2)),
                  Mul(Mul(thisrho, thisux), thisuy) >>
        m_post == Eager([a \in 1 .. 9 |-> Sub(m[a], Mul(S[a], Sub(m[a], meq[a])))])
        f_post == Eager([a \in 1 .. 9 |-> SumSeq(Eager([b \in 1 .. 9 |-> Mul(Minv[a][b], m_post[b])]))])
    IN  [rho |-> thisrho, ux |-> thisux, uy |-> thisuy,
         pressure |-> Div(thisrho, R(3, 1)), f |-> f_post]

\* the cells the collision loops visit and do not skip
CollidedCells(t) == {i \in Interior(t.xdim, t.ydim) : t.barriers[i] = 0}

\* the arrays after a collision loop whose body maps cell i to c[i]
StoreCollision(t, c) ==
    LET P(a, k) == Eager([i \in DOMAIN a |-> IF i \in DOMAIN c THEN c[i].f[k] ELSE a[i]])
        Q(a, fld) == Eager([i \in DOMAIN a |-> IF i \in DOMAIN c THEN c[i][fld] ELSE a[i]])
    IN  [t EXCEPT !.n0 = P(@, 1), !.nE = P(@, 2), !.nN = P(@, 3), !.nW = P(@, 4),
                  !.nS = P(@, 5), !.nNE = P(@, 6), !.nNW = P(@, 7), !.nSW = P(@, 8),
                  !.nSE = P(@, 9),
                  !.rho = Q(@, "rho"), !.ux = Q(@, "ux"), !.uy = Q(@, "uy"),
                  !.pressure = Q(@, "pressure")]

\* the relaxation rate collideBGK() computes
Omega(viscosity) == Div(One, Add(Mul(R(3, 1), viscosity), R(1, 2)))

\* collideBGK()
collideBGK(t) ==
    LET omega == Omega(t.viscosity)
    IN  StoreCollision(t, Eager([i \in CollidedCells(t) |-> collideBGKCell(CellF(t, i), omega)]))

\* a variant of collideMRT() whose population vector is not in the order of the columns
\* of M
collideMRTDensityOrder(t) ==
    StoreCollision(t, Eager([i \in CollidedCells(t) |->
                                collideMRTCell(CellFDensityOrder(t, i), t.S)]))

\* collideMRT()
collideMRT(t) ==
    StoreCollision(t, Eager([i \in CollidedCells(t) |-> collideMRTCell(CellF(t, i), t.S)]))

\* collide()
collide(t) == IF t.useMRT THEN collideMRT(t) ELSE collideBGK(t)

(***************************************************************************)
(* Initialisation of the fluid.                                            *)
(***************************************************************************)
\* Math.cos / Math.sin of the flow angle, for the axis-aligned inflows
Cos(deg) == IF deg = 0 THEN One ELSE IF deg = 180 THEN R(0 - 1, 1) ELSE Zero

Sin(deg) == IF deg = 90 THEN One ELSE Zero

\* updateReynoldsNumber()
updateReynoldsNumber(t) ==
    IF t.chordLength > 0
    THEN [t EXCEPT !.reynoldsNumber =
             Div(Mul(t.flowSpeed, R(t.chordLength, 1)), t.viscosity)]
    ELSE t

\* the first loop of initFluid(): cells k.. of the row-major order set to the inlet state
RECURSIVE initCells(_, _)
initCells(t, k) ==
    IF k >= t.xdim * t.ydim THEN t
    ELSE LET ux0  == Mul(t.flowSpeed, Cos(t.flowAngleDeg))
             uy0  == Mul(t.flowSpeed, Sin(t.flowAngleDeg))
             rho0 == One
             t1   == setEquilibrium(t, k % t.xdim, k \div t.xdim, ux0, uy0, rho0)
         IN  initCells([t1 EXCEPT !.pressure[k] = Div(rho0, R(3, 1))], k + 1)

\* initFluid()
initFluid(t) ==
    LET t1 == initCells(t, 0)
        t2 == [t1 EXCEPT !.curl = Eager([i \in DOMAIN @ |-> Zero])]
    IN  updateReynoldsNumber(zeroOutBarrierCells(t2))

\* a FluidSimulation object with every field at its zero value, on an xdim x ydim lattice
Blank(xdim, ydim) ==
    initArrays([width |-> xdim, height |-> ydim, pxPerSquare |-> 1,
                xdim |-> xdim, ydim |-> ydim,
                currentAngle |-> 0, useMRT |-> TRUE,
                s_nu |-> NaN, s_e |-> NaN, s_eps |-> NaN, s_q |-> NaN, s_nu_bulk |-> NaN,
                S |-> <<>>,
                flowSpeed |-> Zero, flowAngleDeg |-> 0, viscosity |-> NaN,
                running |-> FALSE, chordLength |-> 0,
                frameCount |-> 0, forceUpdateInterval |-> 0,
                showForceVectors |-> FALSE,
                forces |-> [lift |-> Zero, drag |-> Zero],
                reynoldsNumber |-> Zero,
                n0 |-> <<>>, nN |-> <<>>, nS |-> <<>>, nE |-> <<>>, nW |-> <<>>,
                nNE |-> <<>>, nSE |-> <<>>, nNW |-> <<>>, nSW |-> <<>>,
                rho |-> <<>>, ux |-> <<>>, uy |-> <<>>, curl |-> <<>>,
                pressure |-> <<>>, speed |-> <<>>, barriers |-> <<>>])

(***************************************************************************)
(* The airfoil: addNACABarrier().                                          *)
(***************************************************************************)
\* _generateAirfoilPoints(): the rounded offsets <<xTop, yTop, xBot, yBot>> from the centre
\* of the top and bottom points for i = 0 .. chordLength, tabulated (the thickness, camber,
\* cosine and sine are not rational) for every chord length of the model's lattices and
\* the angles -0.261799 + k * 0.0872665, k = currentAngle
AirfoilOffsets(chordLength, k) ==
    CASE chordLength = 1 /\ k = 0 - 6 -> <<<<0, 0, 0, 0>>, <<1, 0 - 1, 1, 0 - 1>>>>
      [] chordLength = 1 /\ k = 0 - 5 -> <<<<0, 0, 0, 0>>, <<1, 0 - 1, 1, 0 - 1>>>>
      [] chordLength = 1 /\ k = 0 - 4 -> <<<<0, 0, 0, 0>>, <<1, 0 - 1, 1, 0 - 1>>>>
      [] chordLength = 1 /\ k = 0 - 3 -> <<<<0, 0, 0, 0>>, <<1, 0, 1, 0 - 1>>>>
      [] chordLength = 1 /\ k = 0 - 2 -> <<<<0, 0, 0, 0>>, <<1, 0, 1, 0>>>>
      [] chordLength = 1 /\ k = 0 - 1 -> <<<<0, 0, 0, 0>>, <<1, 0, 1, 0>>>>
      [] chordLength = 1 /\ k = 0 -> <<<<0, 0, 0, 0>>, <<1, 0, 1, 0>>>>
      [] chordLength = 1 /\ k = 1 -> <<<<0, 0, 0, 0>>, <<1, 0, 1, 0>>>>
      [] chordLength = 1 /\ k = 2 -> <<<<0, 0, 0, 0>>, <<1, 0, 1, 0>>>>
      [] chordLength = 1 /\ k = 3 -> <<<<0, 0, 0, 0>>, <<1, 0, 1, 0>>>>
      [] chordLength = 1 /\ k = 4 -> <<<<0, 0, 0, 0>>, <<1, 0, 1, 0>>>>
      [] chordLength = 1 /\ k = 5 -> <<<<0, 0, 0, 0>>, <<1, 0, 1, 0>>>>
      [] chordLength = 1 /\ k = 6 -> <<<<0, 0, 0, 0>>, <<1, 0, 1, 0>>>>
      [] chordLength = 2 /\ k = 0 - 6 -> <<<<0, 0, 0, 0>>, <<1, 0 - 1, 1, 0 - 1>>, <<1, 0 - 1, 1, 0 - 1>>>>
      [] chordLength = 2 /\ k = 0 - 5 -> <<<<0, 0, 0, 0>>, <<1, 0 - 1, 1, 0 - 1>>, <<2, 0 - 1, 2, 0 - 1>>>>
      [] chordLength = 2 /\ k = 0 - 4 -> <<<<0, 0, 0, 0>>, <<1, 0, 1, 0 - 1>>, <<2, 0 - 1, 2, 0 - 1>>>>
      [] chordLength = 2 /\ k = 0 - 3 -> <<<<0, 0, 0, 0>>, <<1, 0, 1, 0 - 1>>, <<2, 0 - 1, 2, 0 - 1>>>>
      [] chordLength = 2 /\ k = 0 - 2 -> <<<<0, 0, 0, 0>>, <<1, 0, 1, 0>>, <<2, 0 - 1, 2, 0 - 1>>>>
      [] chordLength = 2 /\ k = 0 - 1 -> <<<<0, 0, 0, 0>>, <<1, 0, 1, 0>>, <<2, 0 - 1, 2, 0 - 1>>>>
      [] chordLength = 2 /\ k = 0 -> <<<<0, 0, 0, 0>>, <<1, 0, 1, 0>>, <<2, 0 - 1, 2, 0 - 1>>>>
      [] chordLength = 2 /\ k = 1 -> <<<<0, 0, 0, 0>>, <<1, 0, 1, 0>>, <<2, 0, 2, 0>>>>
      [] chordLength = 2 /\ k = 2 -> <<<<0, 0, 0, 0>>, <<1, 0, 1, 0>>, <<2, 0, 2, 0>>>>
      [] chordLength = 2 /\ k = 3 -> <<<<0, 0, 0, 0>>, <<1, 0, 1, 0>>, <<2, 0, 2, 0>>>>
      [] chordLength = 2 /\ k = 4 -> <<<<0, 0, 0, 0>>, <<1, 0, 1, 0>>, <<2, 0, 2, 0>>>>
      [] chordLength = 2 /\ k = 5 -> <<<<0, 0, 0, 0>>, <<1, 0, 1, 0>>, <<2, 0, 2, 0>>>>
      [] chordLength = 2 /\ k = 6 -> <<<<0, 0, 0, 0>>, <<1, 0, 1, 0>>, <<2, 1, 2, 1>>>>
      [] chordLength = 3 /\ k = 0 - 6 -> <<<<0, 0, 0, 0>>, <<1, 0, 1, 0 - 1>>, <<2, 0 - 1, 1, 0 - 1>>, <<2, 0 - 2, 2, 0 - 2>>>>
      [] chordLength = 3 /\ k = 0 - 5 -> <<<<0, 0, 0, 0>>, <<1, 0, 1, 0 - 1>>, <<2, 0 - 1, 2, 0 - 1>>, <<2, 0 - 2, 2, 0 - 2>>>>
      [] chordLength = 3 /\ k = 0 - 4 -> <<<<0, 0, 0, 0>>, <<1, 0, 1, 0 - 1>>, <<2, 0 - 1, 2, 0 - 1>>, <<2, 0 - 2, 2, 0 - 2>>>>
      [] chordLength = 3 /\ k = 0 - 3 -> <<<<0, 0, 0, 0>>, <<1, 0, 1, 0 - 1>>, <<2, 0 - 1, 2, 0 - 1>>, <<3, 0 - 1, 3, 0 - 2>>>>
      [] chordLength = 3 /\ k = 0 - 2 -> <<<<0, 0, 0, 0>>, <<1, 0, 1, 0>>, <<2, 0 - 1, 2, 0 - 1>>, <<3, 0 - 1, 3, 0 - 1>>>>
      [] chordLength = 3 /\ k = 0 - 1 -> <<<<0, 0, 0, 0>>, <<1, 0, 1, 0>>, <<2, 0, 2, 0 - 1>>, <<3, 0 - 1, 3, 0 - 1>>>>
      [] chordLength = 3 /\ k = 0 -> <<<<0, 0, 0, 0>>, <<1, 0, 1, 0>>, <<2, 0, 2, 0 - 1>>, <<3, 0 - 1, 3, 0 - 1>>>>
      [] chordLength = 3 /\ k = 1 -> <<<<0, 0, 0, 0>>, <<1, 0, 1, 0>>, <<2, 0, 2, 0>>, <<3, 0 - 1, 3, 0 - 1>>>>
      [] chordLength = 3 /\ k = 2 -> <<<<0, 0, 0, 0>>, <<1, 0, 1, 0>>, <<2, 0, 2, 0>>, <<3, 0, 3, 0>>>>
      [] chordLength = 3 /\ k = 3 -> <<<<0, 0, 0, 0>>, <<1, 0, 1, 0>>, <<2, 0, 2, 0>>, <<3, 0, 3, 0>>>>
      [] chordLength = 3 /\ k = 4 -> <<<<0, 0, 0, 0>>, <<1, 0, 1, 0>>, <<2, 0, 2, 0>>, <<3, 0, 3, 0>>>>
      [] chordLength = 3 /\ k = 5 -> <<<<0, 0, 0, 0>>, <<1, 0, 1, 0>>, <<2, 1, 2, 0>>, <<3, 1, 3, 1>>>>
      [] chordLength = 3 /\ k = 6 -> <<<<0, 0, 0, 0>>, <<1, 1, 1, 0>>, <<2, 1, 2, 0>>, <<3, 1, 3, 1>>>>
      [] OTHER -> <<>>

\* _generateAirfoilPoints(): the top and bottom points, as <<x, y>>
generateAirfoilPoints(chordLength, centerX, centerY, angle) ==
    LET off == AirfoilOffsets(chordLength, angle)
    IN  [topPoints |-> [i \in 1 .. Len(off) |-> <<centerX + off[i][1], centerY + off[i][2]>>],
         botPoints |-> [i \in 1 .. Len(off) |-> <<centerX + off[i][3], centerY + off[i][4]>>]]

\* _buildAirfoilPolygon(): the top points, then the bottom points reversed
buildAirfoilPolygon(topPoints, botPoints) ==
    topPoints \o [i \in 1 .. Len(botPoints) |-> botPoints[Len(botPoints) + 1 - i]]

\* the least and greatest of a non-empty set of integers
MinOf(s) == CHOOSE a \in s : \A b \in s : a <= b

MaxOf(s) == CHOOSE a \in s : \A b \in s : a >= b

\* Math.round of the rational k/d, d > 0
Round(k, d) == (2 * k + d) \div (2 * d)

\* the x-intersections _fillPolygon() collects on the scanline y, in edge order
RECURSIVE Intersections(_, _, _)
Intersections(polygon, y, i) ==
    IF i > Len(polygon) THEN <<>>
    ELSE LET p1 == polygon[i]
             p2 == polygon[(i % Len(polygon)) + 1]
             dy == p2[2] - p1[2]
             rest == Intersections(polygon, y, i + 1)
         IN  IF (p1[2] <= y /\ p2[2] > y) \/ (p2[2] <= y /\ p1[2] > y)
             THEN <<IF dy > 0
                    THEN Round(p1[1] * dy + (p2[1] - p1[1]) * (y - p1[2]), dy)
                    ELSE Round(0 - (p1[1] * dy + (p2[1] - p1[1]) * (y - p1[2])), 0 - dy)>>
                  \o rest
             ELSE rest

\* a variant of the cells _fillPolygon() sets that fills between every two neighbouring
\* intersections (k += 1 in the loop over the intersections)
FilledCellsEveryGap(polygon, xdim, ydim) ==
    IF polygon = <<>> THEN {}
    ELSE LET ys   == {polygon[i][2] : i \in 1 .. Len(polygon)}
             minY == IF MinOf(ys) > 0 THEN MinOf(ys) ELSE 0
             maxY == IF MaxOf(ys) < ydim - 1 THEN MaxOf(ys) ELSE ydim - 1
             X(y) == SortSeq(Intersections(polygon, y, 1), LAMBDA a, b : a < b)
         IN  {x + y * xdim : <<x, y>> \in
                 {<<x, y>> \in (0 .. xdim - 1) \X (minY .. maxY) :
                     \E k \in 1 .. Len(X(y)) - 1 : X(y)[k] <= x /\ x <= X(y)[k + 1]}}

\* a variant of the cells _fillPolygon() sets that leaves out the test
\* x >= 0 && x < this.xdim of the fill loop
FilledCellsUnclamped(polygon, xdim, ydim) ==
    IF polygon = <<>> THEN {}
    ELSE LET ys   == {polygon[i][2] : i \in 1 .. Len(polygon)}
             minY == IF MinOf(ys) > 0 THEN MinOf(ys) ELSE 0
             maxY == IF MaxOf(ys) < ydim - 1 THEN MaxOf(ys) ELSE ydim - 1
             X(y) == SortSeq(Intersections(polygon, y, 1), LAMBDA a, b : a < b)
         IN  {x + y * xdim : <<x, y>> \in
                 {<<x, y>> \in (0 - 2 * xdim .. 3 * xdim) \X (minY .. maxY) :
                     \E k \in 1 .. Len(X(y)) \div 2 : X(y)[2 * k - 1] <= x /\ x <= X(y)[2 * k]}}

\* the cells _fillPolygon() sets to 1
FilledCells(polygon, xdim, ydim) ==
    IF polygon = <<>> THEN {}
    ELSE LET ys   == {polygon[i][2] : i \in 1 .. Len(polygon)}
             minY == IF MinOf(ys) > 0 THEN MinOf(ys) ELSE 0
             maxY == IF MaxOf(ys) < ydim - 1 THEN MaxOf(ys) ELSE ydim - 1
             X(y) == SortSeq(Intersections(polygon, y, 1), LAMBDA a, b : a < b)
         IN  {x + y * xdim : <<x, y>> \in
                 {<<x, y>> \in (0 .. xdim - 1) \X (minY .. maxY) :
                     \E k \in 1 .. Len(X(y)) \div 2 : X(y)[2 * k - 1] <= x /\ x <= X(y)[2 * k]}}

\* _fillPolygon(polygon, barrierArray)
fillPolygon(polygon, barrierArray, xdim, ydim) ==
    LET cells == FilledCells(polygon, xdim, ydim)
    IN  Eager([i \in DOMAIN barrierArray |-> IF i \in cells THEN 1 ELSE barrierArray[i]])

\* Math.floor(xdim * chordFraction)
ChordLength(xdim, chordFraction) ==
    (xdim * chordFraction[1]) \div chordFraction[2]

\* addNACABarrier({chordFraction, thickness: 0.12, angle})
addNACABarrier(t, chordFraction, angle) ==
    LET chordLength == ChordLength(t.xdim, chordFraction)
        centerX == t.xdim \div 3
        centerY == t.ydim \div 2
        pts     == generateAirfoilPoints(chordLength, centerX, centerY, angle)
        polygon == buildAirfoilPolygon(pts.topPoints, pts.botPoints)
        t1 == [t EXCEPT !.chordLength = chordLength,
                        !.barriers = fillPolygon(polygon, @, t.xdim, t.ydim)]
    IN  updateReynoldsNumber(zeroOutBarrierCells(t1))

(***************************************************************************)
(* setBoundaryConditions().                                                *)
(***************************************************************************)
\* the first loop: rows y.. get the inlet equilibrium in the inlet column and, in the
\* outlet column, the equilibrium with the density of the neighbouring column
RECURSIVE inletOutlet(_, _)
inletOutlet(t, y) ==
    IF y >= t.ydim THEN t
    ELSE LET cosA == Cos(t.flowAngleDeg)
             sinA == Sin(t.flowAngleDeg)
             vx   == Mul(t.flowSpeed, cosA)
             vy   == Mul(t.flowSpeed, sinA)
         IN  IF ~Less(cosA, Zero)
             THEN LET t1     == setEquilibrium(t, 0, y, vx, vy, One)
                      rhoOut == computeDensity(t1, (t.xdim - 2) + y * t.xdim)
                  IN  inletOutlet(setEquilibrium(t1, t.xdim - 1, y, vx, vy, rhoOut), y + 1)
             ELSE LET t1     == setEquilibrium(t, t.xdim - 1, y, vx, vy, One)
                      rhoOut == computeDensity(t1, 1 + y * t.xdim)
                  IN  inletOutlet(setEquilibrium(t1, 0, y, vx, vy, rhoOut), y + 1)

\* one free-slip loop: the row yEdge filled from the row y2, normal components reflected
freeSlipRow(t, yEdge, y2) ==
    LET C(a, src) == Eager([i \in DOMAIN a |->
                        IF i \div t.xdim = yEdge THEN src[(i % t.xdim) + y2 * t.xdim]
                        ELSE a[i]])
    IN  [t EXCEPT !.n0 = C(@, t.n0), !.nE = C(@, t.nE), !.nW = C(@, t.nW),
                  !.nN = C(@, t.nS), !.nS = C(@, t.nN),
                  !.nNE = C(@, t.nSE), !.nNW = C(@, t.nSW),
                  !.nSE = C(@, t.nNE), !.nSW = C(@, t.nNW)]

\* setBoundaryConditions()
setBoundaryConditions(t) ==
    freeSlipRow(freeSlipRow(inletOutlet(t, 0), t.ydim - 1, t.ydim - 2), 0, 1)

(***************************************************************************)
(* The diagnostics and draw().                                             *)
(***************************************************************************)
\* computeSpeed(): speed[i] holds vx*vx + vy*vy, the argument of Math.sqrt
computeSpeed(t) ==
    [t EXCEPT !.speed = Eager([i \in DOMAIN @ |->
                            Add(Mul(t.ux[i], t.ux[i]), Mul(t.uy[i], t.uy[i]))])]

\* computeCurl()
computeCurl(t) ==
    [t EXCEPT !.curl = Eager([i \in DOMAIN @ |->
        IF i \in Interior(t.xdim, t.ydim)
        THEN Sub(Div(Sub(t.uy[i + 1], t.uy[i - 1]), R(2, 1)),
                 Div(Sub(t.ux[i + t.xdim], t.ux[i - t.xdim]), R(2, 1)))
        ELSE @[i]])]

\* draw(): the fields it computes and the frame counter (the pixels are not modelled)
draw(t) ==
    [computeCurl(computeSpeed(t)) EXCEPT !.frameCount = @ + 1]

\* a variant of draw() that draws every cell, whatever its field value
drawAlwaysCompletes(t) == FALSE

\* draw() raises a TypeError in its render loop: for a cell that is not a barrier and
\* whose speed is NaN the colour index is NaN, activeColors[NaN] is undefined and c.r is
\* read from it; computeSpeed() and computeCurl() have run by then, frameCount++ has not
drawThrows(t) ==
    \E i \in DOMAIN t.barriers :
        /\ t.barriers[i] = 0
        /\ IsNaN(Add(Mul(t.ux[i], t.ux[i]), Mul(t.uy[i], t.uy[i])))

\* the cells next to cell i (with i itself) that lie inside the grid
Around(t, i) ==
    {(x + y * t.xdim) : <<x, y>> \in
        {<<x, y>> \in ((i % t.xdim) - 1 .. (i % t.xdim) + 1)
                      \X ((i \div t.xdim) - 1 .. (i \div t.xdim) + 1) :
            x >= 0 /\ x < t.xdim /\ y >= 0 /\ y < t.ydim}}

\* calculateForces() raises a ReferenceError: it reaches the block that reads the
\* block-scoped nx, ny before their declaration, which it does for a barrier cell of
\* the interior with a fluid neighbour
calculateForcesThrows(t) ==
    \E i \in Interior(t.xdim, t.ydim) :
        /\ t.barriers[i] # 0
        /\ \E j \in Around(t, i) : t.barriers[j] = 0

\* calculateForces() when it returns: no pair of a barrier cell and a fluid neighbour
\* has added to fx and fy
calculateForces(t) ==
    LET fx == Zero
        fy == Zero
        cosA == Cos(t.flowAngleDeg)
        sinA == Sin(t.flowAngleDeg)
        drag == Add(Mul(fx, cosA), Mul(fy, sinA))
        lift == Add(Mul(Neg(fx), sinA), Mul(fy, cosA))
        normFactor == Mul(Mul(Mul(Mul(R(1, 2), One), t.flowSpeed), t.flowSpeed),
                          R(t.chordLength, 1))
    IN  [t EXCEPT !.forces = [fx |-> fx, fy |-> fy,
                              drag |-> Div(drag, normFactor),
                              lift |-> Div(lift, normFactor)]]

(***************************************************************************)
(* The constructor, updateAngle() and resize().                            *)
(***************************************************************************)
\* the least lattice width and height: the model's stand-ins for the 50 and 50 of the
\* constructor and of resize(), scaled down with the lattice
MinXdim == 6

MinYdim == 4

\* the least canvas width and height resize() accepts: the stand-ins for 600 and 400
MinCanvasWidth == 7

MinCanvasHeight == 4

\* const stepsPerFrame = 5
stepsPerFrame == 5

\* a || b on numbers: undefined (NaN here), NaN and 0 are falsy
OrElse(a, b) == IF IsNaN(a) \/ a = Zero THEN b ELSE a

\* a variant of the lattice size without the test against the least size
CellsAcrossUnclamped(size, pxPerSquare, least) == size \div pxPerSquare

\* Math.floor(size / pxPerSquare), raised to the least lattice size
CellsAcross(size, pxPerSquare, least) ==
    IF size \div pxPerSquare < least THEN least ELSE size \div pxPerSquare

\* initMRTParameters()
initMRTParameters(t) ==
    LET s_nu  == Div(One, Add(Mul(R(3, 1), t.viscosity), R(1, 2)))
        s_e   == R(13, 10)
        s_eps == R(13, 10)
        s_q   == R(6, 5)
    IN  [t EXCEPT !.s_nu = s_nu, !.s_e = s_e, !.s_eps = s_eps, !.s_q = s_q,
                  !.s_nu_bulk = One,
                  !.S = <<One, s_e, s_eps, One, s_q, One, s_q, s_nu, s_nu>>]

\* new FluidSimulation(canvas, options); an option that is not given is NaN (undefined),
\* and so is this.viscosity until line 32 sets it
constructor(canvas, options) ==
    LET px == IF options.pxPerSquare = 0 THEN 1 ELSE options.pxPerSquare
        t1 == [Blank(CellsAcross(canvas[1], px, MinXdim), CellsAcross(canvas[2], px, MinYdim))
                  EXCEPT !.width = canvas[1], !.height = canvas[2], !.pxPerSquare = px,
                         !.currentAngle = 0, !.useMRT = TRUE]
        t2 == initMRTParameters(t1)
        t3 == [t2 EXCEPT !.flowSpeed = OrElse(options.flowSpeed, R(1, 5)),
                         !.flowAngleDeg = options.flowAngleDeg,
                         !.viscosity = OrElse(options.viscosity, R(1, 100)),
                         !.running = FALSE, !.chordLength = 0]
        t4 == [initArrays(t3) EXCEPT !.forceUpdateInterval = 10, !.frameCount = 0,
                                     !.forces = [lift |-> Zero, drag |-> Zero],
                                     !.reynoldsNumber = Zero]
    IN  draw(addNACABarrier(initFluid(t4), R(1, 3), t4.currentAngle))

\* a variant of updateAngle() that turns the airfoil by newAngle from where it is
updateAngleRelative(t, newAngle) ==
    LET t1 == [t EXCEPT !.currentAngle = @ + newAngle]
    IN  addNACABarrier(initFluid(initArrays(t1)), R(2, 7), t1.currentAngle)

\* updateAngle(newAngle)
updateAngle(t, newAngle) ==
    LET t1 == [t EXCEPT !.currentAngle = newAngle]
    IN  addNACABarrier(initFluid(initArrays(t1)), R(2, 7), newAngle)

\* resize(width, height)
resize(t, width, height) ==
    LET w  == IF width > MinCanvasWidth THEN width ELSE MinCanvasWidth
        h  == IF height > MinCanvasHeight THEN height ELSE MinCanvasHeight
        t1 == [t EXCEPT !.width = w, !.height = h,
                        !.xdim = CellsAcross(w, t.pxPerSquare, MinXdim),
                        !.ydim = CellsAcross(h, t.pxPerSquare, MinYdim)]
    IN  draw(addNACABarrier(initFluid(initArrays(t1)), R(1, 6), t1.currentAngle))

(***************************************************************************)
(* The page: one simulation, its click handlers, the resize timer and the  *)
(* animation-frame loop (Spec).  A handler runs to completion: while an    *)
(* update() is in flight (pc # "idle") no other handler starts.  pc is the *)
(* phase update() runs next, step the number of lattice steps it has       *)
(* finished, phases the methods it has called so far, raf the number of    *)
(* update() callbacks requestAnimationFrame holds, pre the object before   *)
(* the last handler or phase, lastOp the method that ran last.  Every      *)
(* update() of the page ends in the error of draw() before it reaches      *)
(* requestAnimationFrame(), so raf stays 0 and the callback AnimationFrame *)
(* is never enabled: it is defined, and is no disjunct of Next.            *)
(***************************************************************************)
\* most clicks and resizes of a run, and the frame count at which the model stops
\* starting handlers
MaxEvents == 2

MaxFrames == 3

\* the canvas sizes and options simulations are constructed with
Canvases == {<<MinXdim + 1, MinYdim - 1>>}

OptionSets ==
    {[pxPerSquare |-> 0, flowSpeed |-> R(1, 10), flowAngleDeg |-> 180, viscosity |-> NaN],
     [pxPerSquare |-> 0, flowSpeed |-> R(1, 10), flowAngleDeg |-> 0, viscosity |-> R(1, 50)]}

\* the sizes the resize timer passes to resize()
ResizeSizes == {<<MinCanvasWidth + 1, 0>>}

Init ==
    /\ \E canvas \in Canvases, options \in OptionSets :
          simulation = constructor(canvas, options)
    /\ pc = "idle"
    /\ step = 0
    /\ phases = <<>>
    /\ pre = simulation
    /\ lastOp = "constructor"
    /\ events = 0
    /\ raf = 0

\* the start of update(): it returns at once unless the simulation is running
EnterUpdate(running) ==
    /\ pc' = IF running THEN "setBoundaryConditions" ELSE "idle"
    /\ step' = 0
    /\ phases' = <<>>

\* a variant of the body of update() that streams before it collides
AfterPhaseStreamFirst(phase, k) ==
    CASE phase = "setBoundaryConditions" -> <<"stream", k>>
      [] phase = "stream" -> <<"collide", k>>
      [] phase = "collide" ->
            IF k + 1 < stepsPerFrame THEN <<"setBoundaryConditions", k + 1>>
            ELSE <<"calculateForces", k + 1>>
      [] phase = "calculateForces" -> <<"draw", k>>
      [] phase = "draw" -> <<"idle", k>>

\* the body of update() after a phase: <<the phase run next, the steps finished>>
AfterPhase(phase, k) ==
    CASE phase = "setBoundaryConditions" -> <<"collide", k>>
      [] phase = "collide" -> <<"stream", k>>
      [] phase = "stream" ->
            IF k + 1 < stepsPerFrame THEN <<"setBoundaryConditions", k + 1>>
            ELSE <<"calculateForces", k + 1>>
      [] phase = "calculateForces" -> <<"draw", k>>
      [] phase = "draw" -> <<"idle", k>>

\* a variant in which a handler may start while update() is between two of its calls
MayStartInsideUpdate == simulation.frameCount < MaxFrames

\* a handler may start
MayStart == pc = "idle" /\ simulation.frameCount < MaxFrames

\* the playPauseButton click handler
PlayPauseClick ==
    /\ MayStart
    /\ events < MaxEvents
    /\ events' = events + 1
    /\ pre' = simulation
    /\ simulation' = [simulation EXCEPT !.running = ~@]
    /\ EnterUpdate(~simulation.running)
    /\ lastOp' = "playPause"
    /\ UNCHANGED raf

\* the increaseAngle (by = 1) and decreaseAngle (by = -1) click handlers
AngleClick(by) ==
    /\ MayStart
    /\ events < MaxEvents
    /\ events' = events + 1
    /\ pre' = simulation
    /\ simulation' =
          [updateAngle(simulation, simulation.currentAngle + by) EXCEPT !.running = TRUE]
    /\ IF simulation.running
       THEN UNCHANGED <<pc, step, phases>>
       ELSE EnterUpdate(TRUE)
    /\ lastOp' = "updateAngle"
    /\ UNCHANGED raf

IncreaseAngleClick == AngleClick(1)

DecreaseAngleClick == AngleClick(0 - 1)

\* the debounced resize timer
ResizeTimer ==
    /\ MayStart
    /\ events < MaxEvents
    /\ events' = events + 1
    /\ pre' = simulation
    /\ \E size \in ResizeSizes : simulation' = resize(simulation, size[1], size[2])
    /\ lastOp' = "resize"
    /\ UNCHANGED <<pc, step, phases, raf>>

\* an update() callback of requestAnimationFrame, enabled when one is pending
AnimationFrame ==
    /\ MayStart
    /\ raf > 0
    /\ raf' = raf - 1
    /\ EnterUpdate(simulation.running)
    /\ lastOp' = "update"
    /\ UNCHANGED <<simulation, pre, events>>

\* update() calls setBoundaryConditions()
SetBoundaryConditionsPhase ==
    /\ pc = "setBoundaryConditions"
    /\ pre' = simulation
    /\ simulation' = setBoundaryConditions(simulation)
    /\ pc' = AfterPhase(pc, step)[1]
    /\ step' = AfterPhase(pc, step)[2]
    /\ phases' = Append(phases, "setBoundaryConditions")
    /\ lastOp' = "setBoundaryConditions"
    /\ UNCHANGED <<events, raf>>

\* update() calls collide()
CollidePhase ==
    /\ pc = "collide"
    /\ pre' = simulation
    /\ simulation' = collide(simulation)
    /\ pc' = AfterPhase(pc, step)[1]
    /\ step' = AfterPhase(pc, step)[2]
    /\ phases' = Append(phases, "collide")
    /\ lastOp' = "collide"
    /\ UNCHANGED <<events, raf>>

\* update() calls stream()
StreamPhase ==
    /\ pc = "stream"
    /\ pre' = simulation
    /\ simulation' = stream(simulation)
    /\ pc' = AfterPhase(pc, step)[1]
    /\ step' = AfterPhase(pc, step)[2]
    /\ phases' = Append(phases, "stream")
    /\ lastOp' = "stream"
    /\ UNCHANGED <<events, raf>>

\* update() after its steps: calculateForces() every forceUpdateInterval frames; the
\* error it raises is caught, stops the simulation and ends update()
ForcesPhase ==
    /\ pc = "calculateForces"
    /\ pre' = simulation
    /\ IF simulation.frameCount % simulation.forceUpdateInterval # 0
       THEN /\ pc' = AfterPhase(pc, step)[1]
            /\ UNCHANGED <<simulation, phases, lastOp>>
       ELSE /\ phases' = Append(phases, "calculateForces")
            /\ lastOp' = "calculateForces"
            /\ IF calculateForcesThrows(simulation)
               THEN /\ simulation' = [simulation EXCEPT !.running = FALSE]
                    /\ pc' = "idle"
               ELSE /\ simulation' = calculateForces(simulation)
                    /\ pc' = AfterPhase(pc, step)[1]
    /\ UNCHANGED <<step, events, raf>>

\* update() calls draw() and then requestAnimationFrame(); the error draw() raises is
\* caught, stops the simulation and ends update() before requestAnimationFrame()
DrawPhase ==
    /\ pc = "draw"
    /\ pre' = simulation
    /\ phases' = Append(phases, "draw")
    /\ lastOp' = "draw"
    /\ IF drawThrows(simulation)
       THEN /\ simulation' =
                  [computeCurl(computeSpeed(simulation)) EXCEPT !.running = FALSE]
            /\ pc' = "idle"
            /\ raf' = raf
       ELSE /\ simulation' = draw(simulation)
            /\ pc' = AfterPhase(pc, step)[1]
            /\ raf' = raf + 1
    /\ UNCHANGED <<step, events>>

Next ==
    \/ PlayPauseClick
    \/ IncreaseAngleClick
    \/ DecreaseAngleClick
    \/ ResizeTimer
    \/ SetBoundaryConditionsPhase
    \/ CollidePhase
    \/ StreamPhase
    \/ ForcesPhase
    \/ DrawPhase

Spec == Init /\ [][Next]_vars

\* the three phases of a lattice step, in the order update() calls them
StepOrder == <<"setBoundaryConditions", "collide", "stream">>

SolidCells(t) == {i \in DOMAIN t.barriers : t.barriers[i] = 1}

\* C5: immediately after the constructor, updateAngle() or resize() returns, every solid
\* cell has all nine populations, rho, ux and uy equal to 0, and the nine populations of
\* every other cell sum to its rho
GeometryChangeLeavesCleanLattice ==
    lastOp \in {"constructor", "updateAngle", "resize"} =>
        \A i \in DOMAIN simulation.barriers :
            IF i \in SolidCells(simulation)
            THEN /\ \A k \in 1 .. 9 : simulation[PopNames[k]][i] = Zero
                 /\ simulation.rho[i] = Zero
                 /\ simulation.ux[i] = Zero
                 /\ simulation.uy[i] = Zero
            ELSE NumEq(computeDensity(simulation, i), simulation.rho[i])

\* updateAngle() has returned on a lattice that an update() had stepped, whose
\* densities were no longer numbers, and there are solid cells
GeometryChangeLeavesCleanLatticeWitness ==
    /\ lastOp = "updateAngle"
    /\ \E i \in DOMAIN pre.rho : IsNaN(pre.rho[i])
    /\ pre.rho # simulation.rho
    /\ SolidCells(simulation) # {}
    /\ SolidCells(simulation) # DOMAIN simulation.barriers

\* C6: immediately after collide(), the nine populations of every interior cell that is
\* not solid sum to the rho the call stored for the cell
CollisionConservesMass ==
    lastOp = "collide" =>
        \A i \in CollidedCells(simulation) :
            NumEq(computeDensity(simulation, i), simulation.rho[i])

\* the relaxation rates of the shear moments that the active collision operator applies
ShearRates(t) == IF t.useMRT THEN {t.S[8], t.S[9]} ELSE {Omega(t.viscosity)}

\* C7: in every state after the constructor returns, the shear relaxation rate of the
\* active collision operator equals 1/(3*viscosity + 0.5) for the configured viscosity
\* and, the viscosity being positive, is a finite number in (0, 2)
ShearRateMatchesViscosity ==
    \A rate \in ShearRates(simulation) :
        /\ NumEq(rate, Omega(simulation.viscosity))
        /\ Less(Zero, simulation.viscosity) =>
              IsFinite(rate) /\ Less(Zero, rate) /\ Less(rate, R(2, 1))

\* some population, density, velocity or pressure entry of t is NaN
HasNaN(t) ==
    \E i \in DOMAIN t.rho :
        \/ \E k \in 1 .. 9 : IsNaN(t[PopNames[k]][i])
        \/ IsNaN(t.rho[i]) \/ IsNaN(t.ux[i]) \/ IsNaN(t.uy[i]) \/ IsNaN(t.pressure[i])

\* the session was constructed with flowSpeed 0.1, flow angle 0 and viscosity 0.02, and
\* since then only Simulate has been clicked: its lattice has only been stepped
StableRun ==
    /\ simulation.flowSpeed = R(1, 10)
    /\ simulation.flowAngleDeg = 0
    /\ simulation.viscosity = R(1, 50)
    /\ simulation.currentAngle = 0
    /\ simulation.running
    /\ events = 1

\* C8: from the configuration flowSpeed 0.1, angle 0, viscosity 0.02, after any number of
\* steps (up to 100) no population, density, velocity or pressure entry is NaN
StableRunHasNoNaN == StableRun => ~HasNaN(simulation)

\* the names of the per-cell arrays
CellArrays ==
    {"n0", "nN", "nS", "nE", "nW", "nNE", "nSE", "nNW", "nSW",
     "rho", "ux", "uy", "curl", "pressure", "speed", "barriers"}

\* every per-cell array of t has xdim*ydim entries
ArraysMatchGrid(t) == \A a \in CellArrays : DOMAIN t[a] = 0 .. t.xdim * t.ydim - 1

\* the calls of setBoundaryConditions(), collide() and stream() among the calls update()
\* has made
StepCalls(s) ==
    SelectSeq(s, LAMBDA p : p \in {"setBoundaryConditions", "collide", "stream"})

\* C17: updateAngle() and resize() run only while no update() is in flight, before or
\* after complete setBoundaryConditions -> collide -> stream steps and never between
\* the phases of one, and every phase of a step finds all per-cell arrays with the
\* current xdim*ydim entries
GeometryChangesOnlyBetweenSteps ==
    /\ [](pc # "idle" => ArraysMatchGrid(simulation))
    /\ [][(events' # events /\ lastOp' \in {"updateAngle", "resize"}) =>
             (pc = "idle" /\ Len(StepCalls(phases)) = 3 * step)]_vars

\* resize() has run after an update() that took all the steps of its frame, on the
\* lattice those steps left
GeometryChangesOnlyBetweenStepsWitness ==
    /\ lastOp = "resize"
    /\ Len(StepCalls(phases)) = 3 * stepsPerFrame
    /\ \E i \in DOMAIN pre.rho : IsNaN(pre.rho[i])
    /\ pre.rho # simulation.rho

(***************************************************************************)
(* stream() as a function: applied once to a lattice drawn from a bounded  *)
(* set (SpecStream).                                                       *)
(***************************************************************************)
\* the lattice the stream() inputs are laid on
StreamXdim == LatDim + 1

StreamYdim == LatDim

\* the population array whose entry i is the tag 100*k + i + 1
TagArray(size, k) == Eager([i \in 0 .. size - 1 |-> R(100 * k + i + 1, 1)])

\* every population of every cell a different number
Tagged(t) ==
    LET size == t.xdim * t.ydim
    IN  [t EXCEPT !.n0 = TagArray(size, 1), !.nE = TagArray(size, 2),
                  !.nN = TagArray(size, 3), !.nW = TagArray(size, 4),
                  !.nS = TagArray(size, 5), !.nNE = TagArray(size, 6),
                  !.nNW = TagArray(size, 7), !.nSW = TagArray(size, 8),
                  !.nSE = TagArray(size, 9)]

\* the lattices stream() is applied to: the fluid at rest or with tagged populations,
\* with the cells of `solid` made barriers and zeroed
StreamInput(kind, solid) ==
    LET t0 == initFluid(Blank(StreamXdim, StreamYdim))
        t1 == IF kind = "tagged" THEN Tagged(t0) ELSE t0
        t2 == [t1 EXCEPT !.barriers = Eager([i \in DOMAIN @ |-> IF i \in solid THEN 1 ELSE 0])]
    IN  zeroOutBarrierCells(t2)

InitStream ==
    /\ \E kind \in {"rest", "tagged"} :
       \E solid \in {s \in SUBSET Interior(StreamXdim, StreamYdim) : Cardinality(s) <= MaxSolid} :
          simulation = StreamInput(kind, solid)
    /\ pc = "input"
    /\ step = 0
    /\ phases = <<>>
    /\ pre = simulation
    /\ lastOp = "input"
    /\ events = 0
    /\ raf = 0

\* one call of stream()
StreamCall ==
    /\ pc = "input"
    /\ pre' = simulation
    /\ simulation' = stream(simulation)
    /\ pc' = "done"
    /\ lastOp' = "stream"
    /\ UNCHANGED <<step, phases, events, raf>>

NextStream == StreamCall

SpecStream == InitStream /\ [][NextStream]_vars

\* the index of the cell one step upstream of cell i along direction d
Upstream(t, i, d) ==
    ((i % t.xdim) - Velocity(d)[1]) + ((i \div t.xdim) - Velocity(d)[2]) * t.xdim

NoSolid(t) == \A i \in DOMAIN t.barriers : t.barriers[i] = 0

\* C1: on a lattice with no solid cells, after stream() every interior cell holds, for
\* each of the eight moving directions, the pre-stream population of that direction of
\* the neighbour one cell upstream (E = +x, W = -x, N = +y, S = -y)
StreamPropagatesUpstream ==
    (lastOp = "stream" /\ NoSolid(pre)) =>
        \A i \in Interior(simulation.xdim, simulation.ydim) : \A d \in Moving :
            simulation[d][i] = pre[d][Upstream(pre, i, d)]

\* the solid cells of a lattice
Solid(t) == {i \in DOMAIN t.barriers : t.barriers[i] # 0}

\* every fluid cell holds the equilibrium of the fluid at rest with density 1
AtRest(t) ==
    \A i \in DOMAIN t.barriers \ Solid(t) : \A k \in 1 .. 9 :
        t[PopNames[k]][i] = Equilibrium(Zero, Zero, One)[PopNames[k]]

\* C2: for a single isolated solid cell surrounded by fluid at rest, after one stream()
\* call all nine populations stored at the solid cell are zero and ux and uy at the
\* solid cell are exactly zero
SolidCellStaysEmpty ==
    (lastOp = "stream" /\ Cardinality(Solid(pre)) = 1 /\ AtRest(pre)) =>
        \A s \in Solid(pre) :
            /\ \A k \in 1 .. 9 : simulation[PopNames[k]][s] = Zero
            /\ simulation.ux[s] = Zero
            /\ simulation.uy[s] = Zero

\* the populations of the fluid cells are pairwise different numbers
IsTagged(t) == t = zeroOutBarrierCells(Tagged(t))

\* C3: after stream(), for every solid cell s and moving direction d, the population
\* that streamed along d from the fluid neighbour n = s - c_d into s is found at n as
\* the opposite-direction population, and nowhere else: it neither stays in the solid
\* cell nor reaches a fluid cell on another side of it
BounceBackReflects ==
    (lastOp = "stream" /\ IsTagged(pre)) =>
        \A s \in Solid(pre) : \A d \in Moving :
            LET n == Upstream(pre, s, d)
            IN  pre.barriers[n] = 0 =>
                  /\ simulation[Opposite(d)][n] = pre[d][n]
                  /\ \A j \in DOMAIN pre.barriers : \A e \in Moving :
                        simulation[e][j] = pre[d][n] => (e = Opposite(d) /\ j = n)

\* the assignments a[dst] = a[src] of `moves`, every source read from the array as it
\* was before the first assignment (a second buffer)
SnapshotSweep(a, moves) ==
    Eager([i \in DOMAIN a |->
              IF \E k \in 1 .. Len(moves) : moves[k][1] = i
              THEN a[moves[CHOOSE k \in 1 .. Len(moves) : moves[k][1] = i][2]]
              ELSE a[i]])

\* the propagation part of stream() done with a second buffer: the assignments of
\* every sweep, each reading the pre-stream array
DoubleBuffered(t) ==
    LET no == NorthOrder(t.xdim, t.ydim)
        so == SouthOrder(t.xdim, t.ydim)
        eo == EastOrder(t.xdim, t.ydim)
        wo == WestOrder(t.xdim, t.ydim)
    IN  [t EXCEPT !.nN  = SnapshotSweep(@, Moves(no, t.xdim, 0, 0 - 1)),
                  !.nNW = SnapshotSweep(@, Moves(no, t.xdim, 1, 0 - 1)),
                  !.nNE = SnapshotSweep(@, Moves(no, t.xdim, 0 - 1, 0 - 1)),
                  !.nS  = SnapshotSweep(@, Moves(so, t.xdim, 0, 1)),
                  !.nSW = SnapshotSweep(@, Moves(so, t.xdim, 1, 1)),
                  !.nSE = SnapshotSweep(@, Moves(so, t.xdim, 0 - 1, 1)),
                  !.nE  = SnapshotSweep(@, Moves(eo, t.xdim, 1, 0)),
                  !.nW  = SnapshotSweep(@, Moves(wo, t.xdim, 0 - 1, 0))]

\* the lattices the sweeps are compared on (SpecSweep): no solid cell, every size from
\* 3 x 3 to StreamXdim x StreamYdim, the entries of every population array pairwise
\* different, the tags of the arrays rotated by r
SweepInput(xdim, ydim, r) ==
    LET t0 == Blank(xdim, ydim)
        A(k) == TagArray(xdim * ydim, 1 + ((k + r) % 9))
    IN  [t0 EXCEPT !.n0 = A(0), !.nE = A(1), !.nN = A(2), !.nW = A(3), !.nS = A(4),
                   !.nNE = A(5), !.nNW = A(6), !.nSW = A(7), !.nSE = A(8)]

InitSweep ==
    /\ \E xdim \in 3 .. StreamXdim, ydim \in 3 .. StreamYdim, r \in 0 .. 8 :
          simulation = SweepInput(xdim, ydim, r)
    /\ pc = "input"
    /\ step = 0
    /\ phases = <<>>
    /\ pre = simulation
    /\ lastOp = "input"
    /\ events = 0
    /\ raf = 0

SpecSweep == InitSweep /\ [][NextStream]_vars

\* the eight moving populations of every cell are the same in t1 and t2
SamePopulations(t1, t2) == \A d \in Moving : t1[d] = t2[d]

\* C20: the in-place sweeps of stream() give, for every direction array and every
\* cell, exactly the value a double-buffered pass gives whose assignments read their
\* sources from a snapshot of the pre-stream array (on a lattice without solid cells
\* that is the whole of stream())
InPlaceSweepsMatchDoubleBuffer ==
    lastOp = "stream" =>
        /\ SamePopulations(streamSweeps(pre), DoubleBuffered(pre))
        /\ NoSolid(pre) => SamePopulations(simulation, DoubleBuffered(pre))

\* stream() has run on the largest lattice, without solid cells and with pairwise
\* different entries in every population array, and has moved all eight directions
InPlaceSweepsMatchDoubleBufferWitness ==
    /\ lastOp = "stream"
    /\ NoSolid(pre)
    /\ pre.xdim = StreamXdim
    /\ pre.ydim = StreamYdim
    /\ \A d \in Moving :
          /\ Cardinality({pre[d][i] : i \in DOMAIN pre[d]}) = pre.xdim * pre.ydim
          /\ simulation[d] # pre[d]

(***************************************************************************)
(* collideBGK() and collideMRT() as functions: each applied once to a      *)
(* lattice drawn from a bounded set (SpecCollide).                         *)
(***************************************************************************)
\* side of the lattices the collision functions are applied to
CollideDim == 3

\* the velocity components, densities and viscosities the inputs are drawn from
Velocities == {R(0 - 1, 4), Zero, R(1, 10)}

Densities == {One, R(3, 2)}

Viscosities == {R(1, 50), R(1, 6), R(1, 2)}

\* the population moved between two directions to take a cell off equilibrium
Delta == R(1, 8)

\* cells k.. of the row-major order set to the equilibrium of (ux, uy, rho)
RECURSIVE Uniform(_, _, _, _, _)
Uniform(t, ux, uy, rho, k) ==
    IF k >= t.xdim * t.ydim THEN t
    ELSE Uniform(setEquilibrium(t, k % t.xdim, k \div t.xdim, ux, uy, rho), ux, uy, rho, k + 1)

\* Delta moved from the population PopNames[k] to PopNames[k + 1] in every cell
\* (k = 0: nothing moved)
Shifted(t, k) ==
    IF k = 0 THEN t
    ELSE [t EXCEPT ![PopNames[k]] = Eager([i \in DOMAIN @ |-> Sub(@[i], Delta)]),
                   ![PopNames[k + 1]] = Eager([i \in DOMAIN @ |-> Add(@[i], Delta)])]

\* the relaxation rates with every non-conserved rate equal to omega
UniformRates(omega) == <<One, omega, omega, One, omega, One, omega, omega, omega>>

\* the relaxation rates initMRTParameters() builds for a viscosity
StandardRates(viscosity) ==
    <<One, R(13, 10), R(13, 10), One, R(6, 5), One, R(6, 5),
      Omega(viscosity), Omega(viscosity)>>

InitCollide ==
    /\ \E ux \in Velocities, uy \in Velocities, rho \in Densities, nu \in Viscosities :
       \E k \in 0 .. 8, rates \in {"uniform", "standard"} :
          simulation =
              [Shifted(Uniform(Blank(CollideDim, CollideDim), ux, uy, rho, 0), k)
                  EXCEPT !.viscosity = nu,
                         !.S = IF rates = "uniform" THEN UniformRates(Omega(nu))
                               ELSE StandardRates(nu)]
    /\ pc = "input"
    /\ step = 0
    /\ phases = <<>>
    /\ pre = simulation
    /\ lastOp = "input"
    /\ events = 0
    /\ raf = 0

\* one call of collideBGK()
CollideBGKCall ==
    /\ pc = "input"
    /\ pre' = simulation
    /\ simulation' = collideBGK(simulation)
    /\ pc' = "done"
    /\ lastOp' = "collideBGK"
    /\ UNCHANGED <<step, phases, events, raf>>

\* one call of collideMRT()
CollideMRTCall ==
    /\ pc = "input"
    /\ pre' = simulation
    /\ simulation' = collideMRT(simulation)
    /\ pc' = "done"
    /\ lastOp' = "collideMRT"
    /\ UNCHANGED <<step, phases, events, raf>>

NextCollide == CollideBGKCall \/ CollideMRTCall

SpecCollide == InitCollide /\ [][NextCollide]_vars

\* every cell of t holds the populations setEquilibrium() stores for the one
\* (ux, uy, rho) found in cell 0, with rho > 0
IsUniformEquilibrium(t) ==
    /\ Less(Zero, t.rho[0])
    /\ \A i \in DOMAIN t.rho : \A k \in 1 .. 9 :
          t[PopNames[k]][i] = Equilibrium(t.ux[0], t.uy[0], t.rho[0])[PopNames[k]]

\* C9: if every cell holds the populations setEquilibrium(ux, uy, rho) of one uniform
\* (ux, uy, rho), collideBGK leaves all nine populations of every cell unchanged
EquilibriumIsBGKFixedPoint ==
    (lastOp = "collideBGK" /\ IsUniformEquilibrium(pre)) =>
        \A i \in DOMAIN pre.rho : CellF(simulation, i) = CellF(pre, i)

\* collideBGK has run on a uniform equilibrium with non-zero flow in x and y
EquilibriumIsBGKFixedPointWitness ==
    /\ lastOp = "collideBGK"
    /\ IsUniformEquilibrium(pre)
    /\ pre.ux[0] # Zero
    /\ pre.uy[0] # Zero
    /\ CollidedCells(pre) # {}

\* the x and y momentum of the populations of cell i
MomentumX(t, i) ==
    Sub(Add(Add(t.nE[i], t.nNE[i]), t.nSE[i]), Add(Add(t.nW[i], t.nNW[i]), t.nSW[i]))

MomentumY(t, i) ==
    Sub(Add(Add(t.nN[i], t.nNE[i]), t.nNW[i]), Add(Add(t.nS[i], t.nSE[i]), t.nSW[i]))

\* C10: for the same input populations, collideMRT with every non-conserved rate equal
\* to omega gives the same rho, ux, uy as collideBGK with that omega, in the values the
\* call stores and in the density and momentum of the post-collision populations
MRTGeneralizesBGK ==
    (lastOp = "collideMRT" /\ pre.S = UniformRates(Omega(pre.viscosity))) =>
        LET bgk == collideBGK(pre)
        IN  \A i \in Interior(pre.xdim, pre.ydim) :
               /\ simulation.rho[i] = bgk.rho[i]
               /\ simulation.ux[i] = bgk.ux[i]
               /\ simulation.uy[i] = bgk.uy[i]
               /\ computeDensity(simulation, i) = computeDensity(bgk, i)
               /\ MomentumX(simulation, i) = MomentumX(bgk, i)
               /\ MomentumY(simulation, i) = MomentumY(bgk, i)
               /\ IsFinite(simulation.rho[i])
               /\ IsFinite(simulation.ux[i])

\* collideMRT has run with uniform rates on a cell off equilibrium, and its
\* populations differ from the ones collideBGK gives
MRTGeneralizesBGKWitness ==
    /\ lastOp = "collideMRT"
    /\ pre.S = UniformRates(Omega(pre.viscosity))
    /\ ~IsUniformEquilibrium(pre)
    /\ \E i \in CollidedCells(pre) :
          /\ pre.ux[i] # simulation.ux[i]
          /\ CellF(simulation, i) # CellF(collideBGK(pre), i)

(***************************************************************************)
(* The simulation step of update() (setBoundaryConditions, collide,        *)
(* stream), applied repeatedly to a lattice without solid cells drawn from *)
(* a bounded set (SpecStep).                                               *)
(***************************************************************************)
\* most steps taken on an input lattice
MaxSteps == 2

\* the body of the step loop of update()
stepOnce(t) == stream(collide(setBoundaryConditions(t)))

\* the lattices the steps are applied to: no solid cell, no inflow (flowSpeed 0), the
\* fluid at rest with density 1 and, at the cells of `bump`, at rest with density rho;
\* the collision operator is collideBGK or collideMRT with the rates of the viscosity
StepInput(bump, rho, nu, mrt) ==
    LET t0 == initFluid([Blank(StreamXdim, StreamYdim) EXCEPT
                            !.viscosity = nu, !.useMRT = mrt, !.S = StandardRates(nu)])
    IN  [t0 EXCEPT
            !.n0 = Eager([i \in DOMAIN @ |-> IF i \in bump THEN Mul(rho, @[i]) ELSE @[i]]),
            !.nE = Eager([i \in DOMAIN @ |-> IF i \in bump THEN Mul(rho, @[i]) ELSE @[i]]),
            !.nN = Eager([i \in DOMAIN @ |-> IF i \in bump THEN Mul(rho, @[i]) ELSE @[i]]),
            !.nW = Eager([i \in DOMAIN @ |-> IF i \in bump THEN Mul(rho, @[i]) ELSE @[i]]),
            !.nS = Eager([i \in DOMAIN @ |-> IF i \in bump THEN Mul(rho, @[i]) ELSE @[i]]),
            !.nNE = Eager([i \in DOMAIN @ |-> IF i \in bump THEN Mul(rho, @[i]) ELSE @[i]]),
            !.nNW = Eager([i \in DOMAIN @ |-> IF i \in bump THEN Mul(rho, @[i]) ELSE @[i]]),
            !.nSW = Eager([i \in DOMAIN @ |-> IF i \in bump THEN Mul(rho, @[i]) ELSE @[i]]),
            !.nSE = Eager([i \in DOMAIN @ |-> IF i \in bump THEN Mul(rho, @[i]) ELSE @[i]]),
            !.rho = Eager([i \in DOMAIN @ |-> IF i \in bump THEN Mul(rho, @[i]) ELSE @[i]])]

InitStep ==
    /\ \E bump \in {b \in SUBSET Interior(StreamXdim, StreamYdim) : Cardinality(b) <= 1} :
       \E rho \in Densities, nu \in Viscosities, mrt \in BOOLEAN :
          simulation = StepInput(bump, rho, nu, mrt)
    /\ pc = "input"
    /\ step = 0
    /\ phases = <<>>
    /\ pre = simulation
    /\ lastOp = "input"
    /\ events = 0
    /\ raf = 0

\* one more step on the lattice; pre stays the lattice before the first step
StepCall ==
    /\ step < MaxSteps
    /\ simulation' = stepOnce(simulation)
    /\ step' = step + 1
    /\ pc' = "stepped"
    /\ lastOp' = "step"
    /\ UNCHANGED <<phases, pre, events, raf>>

NextStep == StepCall

SpecStep == InitStep /\ [][NextStep]_vars

\* the sum over all cells of the nine populations of the cell
TotalMass(t) ==
    SumSeq([k \in 1 .. t.xdim * t.ydim |-> computeDensity(t, k - 1)])

\* C11: on a lattice with no solid cells and no inflow, the sum of rho over all cells
\* (the sum of all nine populations over all cells) is the same after any number of
\* steps as it was before the first one
StepsConserveTotalMass ==
    (NoSolid(pre) /\ pre.flowSpeed = Zero) => TotalMass(simulation) = TotalMass(pre)

(***************************************************************************)
(* collideBGK() and collideMRT() applied once to a lattice with a cell of  *)
(* collapsed density (SpecLowDensity).                                     *)
(***************************************************************************)
\* the densities given to the collapsed cell: zero, 1e-6 and a non-finite one
LowDensities == {Zero, R(1, 1000000), NaN}

InitLowDensity ==
    /\ \E cell \in Interior(StreamXdim, StreamYdim) :
       \E rho \in LowDensities \cup {One}, nu \in Viscosities, mrt \in BOOLEAN :
          simulation = StepInput({cell}, rho, nu, mrt)
    /\ pc = "input"
    /\ step = 0
    /\ phases = <<>>
    /\ pre = simulation
    /\ lastOp = "input"
    /\ events = 0
    /\ raf = 0

SpecLowDensity == InitLowDensity /\ [][NextCollide]_vars

\* the density of cell i is not finite or is at most 1e-6
IsCollapsed(t, i) == ~Less(R(1, 1000000), computeDensity(t, i))

\* C12: when collision meets a fluid cell whose density is below the stability floor
\* (1e-6 or less) or not finite, it writes no Infinity or NaN to the cell and leaves
\* the cell reset to a safe state, whose density is above the floor
CollisionResetsCollapsedCell ==
    lastOp \in {"collideBGK", "collideMRT"} =>
        \A i \in CollidedCells(pre) :
            IsCollapsed(pre, i) =>
                /\ \A k \in 1 .. 9 : IsFinite(simulation[PopNames[k]][i])
                /\ IsFinite(simulation.ux[i]) /\ IsFinite(simulation.uy[i])
                /\ ~IsCollapsed(simulation, i)

(***************************************************************************)
(* The methods of one FluidSimulation object called directly, in any order *)
(* (SpecCalls): the constructor with options drawn from a bounded set,     *)
(* then resize(), updateAngle() and steps.  phases is the list of the      *)
(* calls made so far, pre the object before the last call.                 *)
(***************************************************************************)
\* most calls and steps of a run
MaxCalls == 3

\* the viscosity options: a negative one and none
CallViscosities == {R(0 - 1, 10), NaN}

\* the sizes asked of resize(): nothing, and more than the least canvas
CallSizes == {<<0, 0>>, <<MinCanvasWidth + 1, MinCanvasHeight + 1>>}

\* the angle given to updateAngle(), in steps of the angle buttons from the
\* constructor's angle
CallAngles == {0 - 3}

InitCalls ==
    /\ \E canvas \in Canvases, nu \in CallViscosities :
          simulation = constructor(canvas, [pxPerSquare |-> 0, flowSpeed |-> R(1, 10),
                                            flowAngleDeg |-> 0, viscosity |-> nu])
    /\ pc = "idle"
    /\ step = 0
    /\ phases = <<>>
    /\ pre = simulation
    /\ lastOp = "constructor"
    /\ events = 0
    /\ raf = 0

\* a call of resize(width, height)
ResizeCall ==
    /\ events + step < MaxCalls
    /\ \E size \in CallSizes :
          /\ simulation' = resize(simulation, size[1], size[2])
          /\ phases' = Append(phases, <<"resize", size>>)
    /\ pre' = simulation
    /\ lastOp' = "resize"
    /\ events' = events + 1
    /\ UNCHANGED <<pc, step, raf>>

\* a call of updateAngle(newAngle)
UpdateAngleCall ==
    /\ events + step < MaxCalls
    /\ \E a \in CallAngles :
          /\ simulation' = updateAngle(simulation, a)
          /\ phases' = Append(phases, <<"updateAngle", a>>)
    /\ pre' = simulation
    /\ lastOp' = "updateAngle"
    /\ events' = events + 1
    /\ UNCHANGED <<pc, step, raf>>

\* one simulation step, as the loop of update() takes it
StepBetweenCalls ==
    /\ events + step < MaxCalls
    /\ simulation' = stepOnce(simulation)
    /\ phases' = Append(phases, <<"step", step>>)
    /\ pre' = simulation
    /\ lastOp' = "step"
    /\ step' = step + 1
    /\ UNCHANGED <<pc, events, raf>>

NextCalls == ResizeCall \/ UpdateAngleCall \/ StepBetweenCalls

SpecCalls == InitCalls /\ [][NextCalls]_vars

\* the configuration of a session is valid: a positive viscosity, a relaxation rate
\* omega = 1/(3*viscosity + 0.5) inside (0, 2), and a grid of at least one cell each way
ValidConfiguration(t) ==
    /\ Less(Zero, t.viscosity)
    /\ Less(Zero, Omega(t.viscosity))
    /\ Less(Omega(t.viscosity), R(2, 1))
    /\ t.xdim >= 1
    /\ t.ydim >= 1

SameAngleTwice ==
    /\ Len(phases) >= 2
    /\ phases[Len(phases)][1] = "updateAngle"
    /\ phases[Len(phases) - 1] = phases[Len(phases)]

\* the barriers mask and the populations, rho, ux and uy of every cell
FieldState(t) ==
    [barriers |-> t.barriers, rho |-> t.rho, ux |-> t.ux, uy |-> t.uy,
     f |-> [k \in 1 .. 9 |-> t[PopNames[k]]]]

\* C14: after updateAngle(a) called twice in a row with the same angle, with no step in
\* between, the barriers mask and the populations, rho, ux and uy of every cell are
\* exactly what they were after the first call
UpdateAngleIsIdempotent ==
    SameAngleTwice => FieldState(simulation) = FieldState(pre)

\* updateAngle() has been called twice with an angle other than the constructor's, on
\* a session that had taken a step, and the lattice has solid cells
UpdateAngleIsIdempotentWitness ==
    /\ SameAngleTwice
    /\ Len(phases) = 3
    /\ phases[1][1] = "step"
    /\ phases[3][2] # 0
    /\ Solid(simulation) # {}
    /\ Solid(simulation) # DOMAIN simulation.barriers

\* the polygon addNACABarrier() last built for t: _generateAirfoilPoints() and
\* _buildAirfoilPolygon() for the chord length, centre and angle of t
AirfoilPolygon(t) ==
    LET pts == generateAirfoilPoints(t.chordLength, t.xdim \div 3, t.ydim \div 2,
                                     t.currentAngle)
    IN  buildAirfoilPolygon(pts.topPoints, pts.botPoints)

\* the x-columns of the grid spanned by the chord: from the least to the greatest x of
\* the polygon's points
ChordColumns(t) ==
    LET xs == {AirfoilPolygon(t)[i][1] : i \in 1 .. Len(AirfoilPolygon(t))}
    IN  {x \in 0 .. t.xdim - 1 : MinOf(xs) <= x /\ x <= MaxOf(xs)}

\* C15: the polygon built by _generateAirfoilPoints() and _buildAirfoilPolygon() has
\* coinciding first and last points, and after _fillPolygon() the solid mask has at
\* least one solid cell in every integer x-column spanned by the chord
AirfoilMaskCoversChord ==
    lastOp \in {"constructor", "updateAngle", "resize"} =>
        /\ AirfoilPolygon(simulation)[1] =
              AirfoilPolygon(simulation)[Len(AirfoilPolygon(simulation))]
        /\ \A x \in ChordColumns(simulation) :
              \E y \in 0 .. simulation.ydim - 1 :
                  simulation.barriers[x + y * simulation.xdim] = 1

(***************************************************************************)
(* _fillPolygon() as a function: applied once to an empty mask and a       *)
(* polygon drawn from a bounded set (SpecFill).  phases is the polygon.    *)
(***************************************************************************)
\* side of the grid the polygons are filled into
FillDim == 3

\* the vertices the polygons are drawn from: inside the grid, on its edges and outside
\* it on every side
FillVertices ==
    {<<0 - 1, 0 - 1>>, <<FillDim, 0>>, <<1, FillDim>>, <<1, 1>>,
     <<FillDim + 1, FillDim - 1>>, <<0 - 2, 1>>}

InitFill ==
    /\ simulation = Blank(FillDim, FillDim)
    /\ \E a \in FillVertices, b \in FillVertices, c \in FillVertices : phases = <<a, b, c>>
    /\ pc = "input"
    /\ step = 0
    /\ pre = simulation
    /\ lastOp = "input"
    /\ events = 0
    /\ raf = 0

\* one call of _fillPolygon(polygon, this.barriers)
FillCall ==
    /\ pc = "input"
    /\ pre' = simulation
    /\ simulation' = [simulation EXCEPT
                        !.barriers = fillPolygon(phases, @, simulation.xdim, simulation.ydim)]
    /\ pc' = "done"
    /\ lastOp' = "fillPolygon"
    /\ UNCHANGED <<step, phases, events, raf>>

NextFill == FillCall

SpecFill == InitFill /\ [][NextFill]_vars

\* the cells whose mask entry the call changed
Written(t0, t1) == {i \in DOMAIN t1.barriers : t1.barriers[i] # t0.barriers[i]}

\* C16: _fillPolygon() writes the mask only at indices x + y*xdim with 0 <= x < xdim
\* and 0 <= y < ydim, for any polygon, also one with vertices outside the grid: the
\* mask keeps its xdim*ydim entries, and every cell written lies in a row and a column
\* the polygon spans (no x outside the grid is wrapped into another row)
FillStaysInsideGrid ==
    lastOp = "fillPolygon" =>
        /\ DOMAIN simulation.barriers = 0 .. simulation.xdim * simulation.ydim - 1
        /\ \A i \in Written(pre, simulation) :
              LET x == i % simulation.xdim
                  y == i \div simulation.xdim
              IN  /\ simulation.barriers[i] = 1
                  /\ \E k \in 1 .. Len(phases) : phases[k][1] <= x
                  /\ \E k \in 1 .. Len(phases) : phases[k][1] >= x
                  /\ \E k \in 1 .. Len(phases) : phases[k][2] <= y
                  /\ \E k \in 1 .. Len(phases) : phases[k][2] >= y

\* _fillPolygon() has filled cells for a polygon with a vertex left of the grid and a
\* vertex right of it
FillStaysInsideGridWitness ==
    /\ lastOp = "fillPolygon"
    /\ Written(pre, simulation) # {}
    /\ \E k \in 1 .. Len(phases) : phases[k][1] < 0
    /\ \E k \in 1 .. Len(phases) : phases[k][1] >= simulation.xdim

(***************************************************************************)
(* calculateForces() as a function: applied once to a lattice drawn from a *)
(* bounded set (SpecForces).  pc is "done" when the call has returned and  *)
(* "threw" when it has raised an error.                                    *)
(***************************************************************************)
\* the lattices calculateForces() is called on: the fluid in uniform flow, the cells of
\* `solid` made barriers, the pressure uniform or different in every cell
ForcesInput(kind, solid) ==
    LET t0 == initFluid([Blank(StreamXdim, StreamYdim) EXCEPT
                            !.flowSpeed = R(1, 10), !.viscosity = R(1, 50),
                            !.chordLength = 2])
        t1 == [t0 EXCEPT !.barriers = Eager([i \in DOMAIN @ |-> IF i \in solid THEN 1 ELSE 0])]
        t2 == zeroOutBarrierCells(t1)
    IN  IF kind = "tagged"
        THEN [t2 EXCEPT !.pressure = Eager([i \in DOMAIN @ |-> R(i + 1, 3)])]
        ELSE t2

InitForces ==
    /\ \E kind \in {"uniform", "tagged"} :
       \E solid \in {s \in SUBSET Interior(StreamXdim, StreamYdim) : Cardinality(s) <= MaxSolid} :
          simulation = ForcesInput(kind, solid)
    /\ pc = "input"
    /\ step = 0
    /\ phases = <<>>
    /\ pre = simulation
    /\ lastOp = "input"
    /\ events = 0
    /\ raf = 0

\* one call of calculateForces()
ForcesCall ==
    /\ pc = "input"
    /\ pre' = simulation
    /\ IF calculateForcesThrows(simulation)
       THEN /\ simulation' = simulation
            /\ pc' = "threw"
       ELSE /\ simulation' = calculateForces(simulation)
            /\ pc' = "done"
    /\ lastOp' = "calculateForces"
    /\ UNCHANGED <<step, phases, events, raf>>

NextForces == ForcesCall

SpecForces == InitForces /\ [][NextForces]_vars

\* the pairs <<s, n>> of a solid cell s and a fluid cell n next to it
WettedPairs(t) ==
    {<<s, n>> \in Solid(t) \X (DOMAIN t.barriers \ Solid(t)) : n \in Around(t, s)}

\* the sum over the pairs in ps with offset (dx, dy) of the pressure of the fluid cell
RECURSIVE PressureOver(_, _, _, _)
PressureOver(t, ps, dx, dy) ==
    IF ps = {} THEN Zero
    ELSE LET p == CHOOSE q \in ps : TRUE
             rest == PressureOver(t, ps \ {p}, dx, dy)
         IN  IF (p[2] % t.xdim) - (p[1] % t.xdim) = dx
                /\ (p[2] \div t.xdim) - (p[1] \div t.xdim) = dy
             THEN Add(rest, t.pressure[p[2]])
             ELSE rest

\* the pressure force summed over the wetted pairs, each pressure times the unit vector
\* from the solid cell to the fluid cell: the axis neighbours add to fx and fy, the
\* diagonal neighbours to dx and dy, which count 1/sqrt(2) each
PressureForce(t) ==
    LET P(dx, dy) == PressureOver(t, WettedPairs(t), dx, dy)
    IN  [fx |-> Sub(P(1, 0), P(0 - 1, 0)),
         fy |-> Sub(P(0, 1), P(0, 0 - 1)),
         dx |-> Sub(Add(P(1, 1), P(1, 0 - 1)), Add(P(0 - 1, 1), P(0 - 1, 0 - 1))),
         dy |-> Sub(Add(P(1, 1), P(0 - 1, 1)), Add(P(1, 0 - 1), P(0 - 1, 0 - 1)))]

\* C18: on a lattice with a solid cell that has a fluid neighbour, calculateForces()
\* completes and stores the drag (fx*cos + fy*sin)/norm and the lift
\* (-fx*sin + fy*cos)/norm of the pressure force (fx, fy) summed over the wetted pairs,
\* norm = 0.5 * flowSpeed^2 * chordLength (the stored values are compared where the
\* diagonal neighbours cancel, so that fx and fy are rational)
ForcesIntegratePressure ==
    (lastOp = "calculateForces" /\ WettedPairs(pre) # {}) =>
        /\ pc = "done"
        /\ LET f    == PressureForce(pre)
               cosA == Cos(pre.flowAngleDeg)
               sinA == Sin(pre.flowAngleDeg)
               norm == Mul(Mul(Mul(R(1, 2), pre.flowSpeed), pre.flowSpeed),
                           R(pre.chordLength, 1))
           IN  (f.dx = Zero /\ f.dy = Zero) =>
                  /\ simulation.forces.drag =
                        Div(Add(Mul(f.fx, cosA), Mul(f.fy, sinA)), norm)
                  /\ simulation.forces.lift =
                        Div(Add(Mul(Neg(f.fx), sinA), Mul(f.fy, cosA)), norm)

\* C19: after the constructor and after any sequence of resize(w, h) calls with any
\* requested sizes, xdim and ydim are at least the minimum (50 in the source, MinXdim
\* and MinYdim here) and every per-cell array (populations, rho, ux, uy, curl, pressure,
\* speed, barriers) has xdim*ydim entries
GridKeepsMinimumSize ==
    /\ simulation.xdim >= MinXdim
    /\ simulation.ydim >= MinYdim
    /\ ArraysMatchGrid(simulation)

\* resize(0, 0) has run on a session whose canvas was lower than the least lattice
\* height, so that the constructor and resize() both had to raise a size
GridKeepsMinimumSizeWitness ==
    /\ lastOp = "resize"
    /\ phases[Len(phases)][2] = <<0, 0>>
    /\ pre.height < MinYdim
    /\ pre.ydim = MinYdim
    /\ simulation.width > pre.width \/ simulation.height > pre.height

(***************************************************************************)
(* setBoundaryConditions() as a function: applied once to a lattice drawn  *)
(* from a bounded set (SpecBoundary).                                      *)
(***************************************************************************)
\* the lattices setBoundaryConditions() is called on: every size from 3 x 3 to
\* StreamXdim x StreamYdim, the inflow at 0, 90 or 180 degrees, the fluid in uniform
\* flow or with pairwise different populations
BoundaryInput(xdim, ydim, deg, kind) ==
    LET t0 == initFluid([Blank(xdim, ydim) EXCEPT
                            !.flowSpeed = R(1, 10), !.flowAngleDeg = deg,
                            !.viscosity = R(1, 50)])
    IN  IF kind = "tagged" THEN Tagged(t0) ELSE t0

InitBoundary ==
    /\ \E xdim \in 3 .. StreamXdim, ydim \in 3 .. StreamYdim :
       \E deg \in {0, 90, 180}, kind \in {"uniform", "tagged"} :
          simulation = BoundaryInput(xdim, ydim, deg, kind)
    /\ pc = "input"
    /\ step = 0
    /\ phases = <<>>
    /\ pre = simulation
    /\ lastOp = "input"
    /\ events = 0
    /\ raf = 0

\* one call of setBoundaryConditions()
BoundaryCall ==
    /\ pc = "input"
    /\ pre' = simulation
    /\ simulation' = setBoundaryConditions(simulation)
    /\ pc' = "done"
    /\ lastOp' = "setBoundaryConditions"
    /\ UNCHANGED <<step, phases, events, raf>>

NextBoundary == BoundaryCall

SpecBoundary == InitBoundary /\ [][NextBoundary]_vars

\* the column setBoundaryConditions() treats as the inlet
InletColumn(t) == IF ~Less(Cos(t.flowAngleDeg), Zero) THEN 0 ELSE t.xdim - 1

\* the populations setEquilibrium() stores for the inlet velocity and density 1
InletEquilibrium(t) ==
    Equilibrium(Mul(t.flowSpeed, Cos(t.flowAngleDeg)),
                Mul(t.flowSpeed, Sin(t.flowAngleDeg)), One)

\* C21: after setBoundaryConditions(), every cell of the inlet column (x = 0 when
\* cos(flowAngle) >= 0, x = xdim-1 otherwise), the two corner cells included, holds
\* exactly the equilibrium populations of the velocity (flowSpeed*cos, flowSpeed*sin)
\* and density 1, for any flow angle
InletColumnHoldsEquilibrium ==
    lastOp = "setBoundaryConditions" =>
        \A y \in 0 .. simulation.ydim - 1 : \A k \in 1 .. 9 :
            simulation[PopNames[k]][InletColumn(simulation) + y * simulation.xdim] =
                InletEquilibrium(simulation)[PopNames[k]]

(***************************************************************************)
(* _fillPolygon() applied once to an empty mask and a polygon of four      *)
(* vertices drawn from a bounded set, self-crossing ones included          *)
(* (SpecScan).  phases is the polygon.                                     *)
(***************************************************************************)
\* side of the grid the four-vertex polygons are filled into
ScanDim == FillDim + 1

\* the vertices of the polygons: the corners of the grid, a cell inside it, a point left
\* of it and a point below it
ScanVertices ==
    {<<0, 0>>, <<ScanDim - 1, 0>>, <<0, ScanDim - 1>>, <<ScanDim - 1, ScanDim - 1>>,
     <<2, 1>>, <<0 - 1, 2>>, <<1, ScanDim>>}

InitScan ==
    /\ simulation = Blank(ScanDim, ScanDim)
    /\ \E a \in ScanVertices, b \in ScanVertices, c \in ScanVertices, d \in ScanVertices :
          phases = <<a, b, c, d>>
    /\ pc = "input"
    /\ step = 0
    /\ pre = simulation
    /\ lastOp = "input"
    /\ events = 0
    /\ raf = 0

SpecScan == InitScan /\ [][NextFill]_vars

\* the rows _fillPolygon() scans for a polygon: its y-range clamped to the grid
ScanRows(polygon, ydim) ==
    {y \in 0 .. ydim - 1 : /\ \E k \in 1 .. Len(polygon) : polygon[k][2] <= y
                           /\ \E k \in 1 .. Len(polygon) : polygon[k][2] >= y}

\* x lies in [X[2k], X[2k+1]] for some k, X the ascending list of the values of s, when
\* X has even length: an odd number of the values lie left of x, or one of them is x
InPairedSpan(s, x) ==
    \/ Cardinality({j \in 1 .. Len(s) : s[j] < x}) % 2 = 1
    \/ \E j \in 1 .. Len(s) : s[j] = x

\* C22: for every scanline y of the polygon's y-range clamped to the grid,
\* _fillPolygon() marks an in-grid cell (x, y) solid exactly when x lies in
\* [X[2k], X[2k+1]] for some k, X being the ascending list of the rounded
\* x-intersections of the scanline with the polygon's edges, and X has even length on
\* every scanline of a closed polygon with integer vertices
ScanlineFillIsEvenOdd ==
    lastOp = "fillPolygon" =>
        \A y \in ScanRows(phases, simulation.ydim) :
            /\ Len(Intersections(phases, y, 1)) % 2 = 0
            /\ \A x \in 0 .. simulation.xdim - 1 :
                  (simulation.barriers[x + y * simulation.xdim] = 1)
                      <=> InPairedSpan(Intersections(phases, y, 1), x)

\* _fillPolygon() has filled a self-crossing polygon: a scanline has four intersections,
\* a cell between its two spans is left fluid, and a vertex lies on a scanline
ScanlineFillIsEvenOddWitness ==
    /\ lastOp = "fillPolygon"
    /\ \E y \in ScanRows(phases, simulation.ydim) :
          /\ Len(Intersections(phases, y, 1)) = 4
          /\ \E x \in 1 .. simulation.xdim - 2 :
                /\ simulation.barriers[x + y * simulation.xdim] = 0
                /\ simulation.barriers[(x - 1) + y * simulation.xdim] = 1
                /\ simulation.barriers[(x + 1) + y * simulation.xdim] = 1
    /\ \E k \in 1 .. 4 : phases[k] = <<2, 1>>

\* C23: whenever diagnostics can be read (after the constructor, updateAngle(),
\* resize() or any number of steps), pressure[i] equals rho[i]/3 for every cell of the
\* grid, the solid cells and the cells of the domain edge included
PressureIsThirdOfDensity ==
    \A i \in DOMAIN simulation.rho :
        simulation.pressure[i] = Div(simulation.rho[i], R(3, 1))

(***************************************************************************)
(* collideMRT() with every relaxation rate 0, so that it only transforms   *)
(* the populations to moments and back (SpecMoments).                      *)
(***************************************************************************)
\* the relaxation rates that relax nothing
ZeroRates == <<Zero, Zero, Zero, Zero, Zero, Zero, Zero, Zero, Zero>>

\* the lattices: a uniform equilibrium with Delta moved between two populations, or
\* pairwise different populations
InitMoments ==
    /\ \E ux \in Velocities, uy \in Velocities, rho \in Densities :
       \E k \in 0 .. 8, kind \in {"shifted", "tagged"} :
          simulation =
              [(IF kind = "tagged"
                THEN Tagged(Uniform(Blank(CollideDim, CollideDim), ux, uy, rho, 0))
                ELSE Shifted(Uniform(Blank(CollideDim, CollideDim), ux, uy, rho, 0), k))
                  EXCEPT !.viscosity = R(1, 50), !.S = ZeroRates]
    /\ pc = "input"
    /\ step = 0
    /\ phases = <<>>
    /\ pre = simulation
    /\ lastOp = "input"
    /\ events = 0
    /\ raf = 0

SpecMoments == InitMoments /\ [][NextCollide]_vars

\* the entry (a, b) of the product Minv * M
MinvTimesM(a, b) == SumSeq([k \in 1 .. 9 |-> Mul(Minv[a][k], R(M[k][b], 1))])

\* C24: Minv is the exact inverse of M under the population ordering
\* [0, E, N, W, S, NE, NW, SW, SE]: Minv * M is the 9 x 9 identity, and collideMRT with
\* no relaxation applied (moments from M, populations back from Minv) returns the nine
\* populations of every cell it visits unchanged
MinvInvertsM ==
    lastOp = "collideMRT" =>
        /\ \A a \in 1 .. 9, b \in 1 .. 9 : MinvTimesM(a, b) = IF a = b THEN One ELSE Zero
        /\ \A i \in DOMAIN pre.rho : CellF(simulation, i) = CellF(pre, i)

\* collideMRT has run without relaxation on a cell off equilibrium with flow in x and y,
\* which a relaxing collision would have changed
MinvInvertsMWitness ==
    /\ lastOp = "collideMRT"
    /\ pre.S = ZeroRates
    /\ CollidedCells(pre) # {}
    /\ ~IsUniformEquilibrium(pre)
    /\ \E i \in CollidedCells(pre) :
          /\ simulation.ux[i] # Zero
          /\ simulation.uy[i] # Zero
          /\ CellF(collideBGK(pre), i) # CellF(pre, i)

(***************************************************************************)
(* The frame loop under the Simulate/Pause button and the angle buttons    *)
(* (SpecLoop): the page of Spec without the resize timer, and with more    *)
(* clicks of the Simulate/Pause button.                                    *)
(***************************************************************************)
\* most clicks of a run of the frame loop
MaxClicks == 3

\* the playPauseButton click handler, clicked up to MaxClicks times
PlayPauseToggle ==
    /\ MayStart
    /\ events < MaxClicks
    /\ events' = events + 1
    /\ pre' = simulation
    /\ simulation' = [simulation EXCEPT !.running = ~@]
    /\ EnterUpdate(~simulation.running)
    /\ lastOp' = "playPause"
    /\ UNCHANGED raf

NextLoop ==
    \/ PlayPauseToggle
    \/ IncreaseAngleClick
    \/ DecreaseAngleClick
    \/ SetBoundaryConditionsPhase
    \/ CollidePhase
    \/ StreamPhase
    \/ ForcesPhase
    \/ DrawPhase

SpecLoop == Init /\ [][NextLoop]_vars

FrameLoopNeverStops ==
    [][/\ pc = "calculateForces" => pc' = "draw"
       /\ pc = "draw" => (pc' = "idle" /\ simulation'.running /\ raf' = raf + 1)]_vars

\* C27: if every cell holds the populations setEquilibrium(ux, uy, rho) of one uniform
\* (ux, uy, rho), collideMRT leaves all nine populations of every cell unchanged
EquilibriumIsMRTFixedPoint ==
    (lastOp = "collideMRT" /\ IsUniformEquilibrium(pre)) =>
        \A i \in DOMAIN pre.rho : CellF(simulation, i) = CellF(pre, i)

\* C28: an updateAngle() or a resize() that keeps the grid size leaves the chord length
\* of the airfoil as it was: the operations rasterize the airfoil with the same chord
\* fraction
ChordLengthSameForEveryOperation ==
    (/\ lastOp \in {"updateAngle", "resize"}
     /\ pre.xdim = simulation.xdim
     /\ pre.ydim = simulation.ydim) =>
        /\ simulation.chordLength = pre.chordLength
        /\ simulation.reynoldsNumber = pre.reynoldsNumber

(***************************************************************************)
(* The snow worker (src/snow/worker/src/index.js): fetchDataChunk() for    *)
(* one chunk (SpecChunk).  Here simulation is the activation record of the *)
(* call: retryCount its parameter, attempts the number of fetch() calls    *)
(* made so far, value what the outermost call returned, threw whether an   *)
(* error left it.  The recursive call is the last thing an activation does *)
(* and its value is returned as it is, so the chain of calls is a loop     *)
(* over retryCount.  phases is the sequence of outcomes of the attempts,   *)
(* pc the position: "entry", "fetch", "backoff", "catch" or "returned".    *)
(* The throw for an HTTP error status is inside the try block: it goes to  *)
(* "catch".                                                                *)
(***************************************************************************)
\* const config
config == [chunkSize |-> 365, retryCount |-> 3, cacheTime |-> 86400]

\* the number of fetch() calls after which the model stops a chain of calls
MaxAttempts == 5

\* what one fetch() attempt can meet: a response that is ok with records, with an empty
\* results array, without results or with a body that is not JSON; a response with an
\* error status; a rejected fetch()
OkOutcomes == {"records", "empty", "noresults", "badjson"}

RateLimitStatuses == {"429", "503", "403"}

OtherStatuses == {"400", "401", "500"}

Outcomes == OkOutcomes \cup RateLimitStatuses \cup OtherStatuses \cup {"network"}

\* the records of a response that has some
Records == <<"record">>

\* a variant of the retry that counts a retry only after a rate-limit response
RetryCountAfterRateLimitOnly(retryCount, outcome) ==
    IF outcome \in RateLimitStatuses THEN retryCount + 1 ELSE retryCount

\* the retryCount of the call that retries after an attempt with this outcome
RetryCountAfter(retryCount, outcome) == retryCount + 1

InitChunk ==
    /\ simulation = [retryCount |-> 0, attempts |-> 0, value |-> <<>>, threw |-> FALSE]
    /\ pc = "entry"
    /\ step = 0
    /\ phases = <<>>
    /\ pre = simulation
    /\ lastOp = "fetchAllData"
    /\ events = 0
    /\ raf = 0

\* the test at the head of fetchDataChunk()
ChunkEntry ==
    /\ pc = "entry"
    /\ IF simulation.retryCount >= config.retryCount
       THEN /\ simulation' = [simulation EXCEPT !.value = <<>>]
            /\ pc' = "returned"
       ELSE /\ simulation' = simulation
            /\ pc' = "fetch"
    /\ pre' = simulation
    /\ lastOp' = "fetchDataChunk"
    /\ UNCHANGED <<step, phases, events, raf>>

\* await fetch(url, ...) and what the try block does with the response
ChunkFetch ==
    /\ pc = "fetch"
    /\ simulation.attempts < MaxAttempts
    /\ \E outcome \in Outcomes :
          /\ phases' = Append(phases, outcome)
          /\ simulation' =
                [simulation EXCEPT !.attempts = @ + 1,
                                   !.value = IF outcome = "records" THEN Records ELSE <<>>]
          /\ pc' = IF outcome \in {"records", "empty", "noresults"} THEN "returned"
                   ELSE IF outcome \in RateLimitStatuses THEN "backoff"
                   ELSE "catch"
    /\ pre' = simulation
    /\ lastOp' = "fetch"
    /\ UNCHANGED <<step, events, raf>>

\* the retry of the rate-limit branch, after its timer
ChunkBackoff ==
    /\ pc = "backoff"
    /\ simulation' =
          [simulation EXCEPT !.retryCount = RetryCountAfter(@, phases[Len(phases)])]
    /\ pc' = "entry"
    /\ pre' = simulation
    /\ lastOp' = "backoff"
    /\ UNCHANGED <<step, phases, events, raf>>

\* the retry of the catch block, after its timer
ChunkCatch ==
    /\ pc = "catch"
    /\ simulation' =
          [simulation EXCEPT !.retryCount = RetryCountAfter(@, phases[Len(phases)])]
    /\ pc' = "entry"
    /\ pre' = simulation
    /\ lastOp' = "catch"
    /\ UNCHANGED <<step, phases, events, raf>>

NextChunk == ChunkEntry \/ ChunkFetch \/ ChunkBackoff \/ ChunkCatch

\* every await of fetchDataChunk() settles: fetch() resolves or rejects, a timer fires
SpecChunk == InitChunk /\ [][NextChunk]_vars /\ WF_vars(NextChunk)

\* every attempt so far has failed
AllFailed(outcomes) ==
    \A k \in 1 .. Len(outcomes) : outcomes[k] \notin {"records", "empty", "noresults"}

\* C29: fetchDataChunk makes at most config.retryCount (3) fetch() attempts for a chunk
\* whatever the outcomes of the attempts are, no error leaves it, a call whose attempts
\* all failed returns an empty array, and every call returns
FetchDataChunkIsBounded ==
    /\ [](/\ simulation.attempts <= config.retryCount
          /\ ~simulation.threw
          /\ (pc = "returned" /\ AllFailed(phases)) => simulation.value = <<>>)
    /\ <>(pc = "returned")

\* fetchDataChunk has returned after a rate-limit response, an HTTP error status and a
\* rejected fetch()
FetchDataChunkIsBoundedWitness ==
    /\ pc = "returned"
    /\ Len(phases) = config.retryCount
    /\ phases[1] \in RateLimitStatuses
    /\ phases[2] \in OtherStatuses
    /\ phases[3] = "network"
    /\ simulation.value = <<>>

(***************************************************************************)
(* The snow worker: the handlers fetch() and scheduled() and the fetch     *)
(* cycles they start (SpecCycles).  Here simulation is the worker's        *)
(* environment: token whether env.NOAA_API_TOKEN is set, snowData the      *)
(* number of records under the key 'snowData' of SNOWFALL_CACHE, cycles    *)
(* the position of every queueFetchCycle() that was started and has not    *)
(* returned ("fetchAllData": awaiting the records; "put": awaiting the     *)
(* writes to the cache).  events counts the handler invocations and phases *)
(* lists them.                                                             *)
(***************************************************************************)
\* the number of handler invocations of a run
MaxRequests == 3

\* queueFetchCycle(env) up to its first await: without a token it returns at once
queueFetchCycle(env) ==
    IF env.token THEN [env EXCEPT !.cycles = Append(@, "fetchAllData")] ELSE env

\* the sequence s without its k-th element
RemoveAt(s, k) == SubSeq(s, 1, k - 1) \o SubSeq(s, k + 1, Len(s))

InitCycles ==
    /\ \E token \in BOOLEAN :
          simulation = [token |-> token, snowData |-> 0, cycles |-> <<>>]
    /\ pc = "idle"
    /\ step = 0
    /\ phases = <<>>
    /\ pre = simulation
    /\ lastOp = "deploy"
    /\ events = 0
    /\ raf = 0

\* fetch(request, env, ctx) for a GET without the admin parameter
GetRequest ==
    /\ events < MaxRequests
    /\ simulation' = IF simulation.snowData > 0 THEN simulation
                     ELSE queueFetchCycle(simulation)
    /\ phases' = Append(phases, IF simulation.snowData > 0 THEN "200" ELSE "503")
    /\ pre' = simulation
    /\ lastOp' = "fetch"
    /\ events' = events + 1
    /\ UNCHANGED <<pc, step, raf>>

\* fetch(request, env, ctx) for ?admin=start_fetch, with the admin token or without
AdminStartFetch ==
    /\ events < MaxRequests
    /\ \E authorized \in BOOLEAN :
          /\ simulation' = IF authorized THEN queueFetchCycle(simulation) ELSE simulation
          /\ phases' = Append(phases, IF authorized THEN "start_fetch" ELSE "401")
    /\ pre' = simulation
    /\ lastOp' = "start_fetch"
    /\ events' = events + 1
    /\ UNCHANGED <<pc, step, raf>>

\* fetch(request, env, ctx) for ?admin=clear_cache with the admin token
AdminClearCache ==
    /\ events < MaxRequests
    /\ simulation' = [simulation EXCEPT !.snowData = 0]
    /\ phases' = Append(phases, "clear_cache")
    /\ pre' = simulation
    /\ lastOp' = "clear_cache"
    /\ events' = events + 1
    /\ UNCHANGED <<pc, step, raf>>

\* scheduled(event, env, ctx)
Scheduled ==
    /\ events < MaxRequests
    /\ simulation' = queueFetchCycle(simulation)
    /\ phases' = Append(phases, "scheduled")
    /\ pre' = simulation
    /\ lastOp' = "scheduled"
    /\ events' = events + 1
    /\ UNCHANGED <<pc, step, raf>>

\* fetchAllData() of a running cycle resolves, with records or with none
CycleFetched ==
    /\ \E k \in 1 .. Len(simulation.cycles), records \in 0 .. 1 :
          /\ simulation.cycles[k] = "fetchAllData"
          /\ simulation' =
                [simulation EXCEPT !.cycles = IF records > 0 THEN [@ EXCEPT ![k] = "put"]
                                              ELSE RemoveAt(@, k)]
    /\ pre' = simulation
    /\ lastOp' = "fetchAllData"
    /\ UNCHANGED <<pc, step, phases, events, raf>>

\* the writes of a running cycle to SNOWFALL_CACHE are done and the cycle returns
CyclePut ==
    /\ \E k \in 1 .. Len(simulation.cycles) :
          /\ simulation.cycles[k] = "put"
          /\ simulation' = [simulation EXCEPT !.snowData = 1, !.cycles = RemoveAt(@, k)]
    /\ pre' = simulation
    /\ lastOp' = "put"
    /\ UNCHANGED <<pc, step, phases, events, raf>>

NextCycles ==
    \/ GetRequest
    \/ AdminStartFetch
    \/ AdminClearCache
    \/ Scheduled
    \/ CycleFetched
    \/ CyclePut

SpecCycles == InitCycles /\ [][NextCycles]_vars

\* C30: at most one queueFetchCycle() is running at any time: a request that finds the
\* cache empty, an admin start_fetch and the scheduled trigger start no cycle while one
\* is running
AtMostOneFetchCycle == Len(simulation.cycles) <= 1

====
